---- MODULE Spec2Model ----
(***************************************************************************)
(* Virtual mounts of conda-forge-feedstock-ops: the mount descriptor, the  *)
(* hardened inbound unpacker of virtual_mounts_host.py, and the operation  *)
(* invoker of container_utils.py with the unpacker it calls.               *)
(*                                                                         *)
(* A path is a sequence of name components.  A file system is a function   *)
(* from the paths that exist to nodes; its root <<>> always exists and is  *)
(* a directory.                                                            *)
(***************************************************************************)
EXTENDS Integers, Sequences, FiniteSets, TLC

VARIABLES
    mounts,       \* the mount sequence handed to _untar_mounts_from_stream
    buffer,       \* the inbound archive: member name -> node
    host,         \* the host file system
    host_before,  \* the host file system when the unpack was called
    tmpdir,       \* the scratch directory of the unpack
    pc,           \* position inside _untar_mounts_from_stream
    idx,          \* index of the mount the loop is at
    error,        \* the exception the unpack raised, "" if none
    extra_mounts, \* the mounts the caller has constructed
    run_pc,       \* position of the caller and of run_container_operation
    run_error,    \* the exception that ended the call, "" if none
    stdin_tar,    \* the archive packed for the container's standard input
    launched,     \* the container process has been started
    returncode,   \* res.returncode
    cmd,          \* the command line run_container_operation has built
    stdout,       \* res.stdout: what kind of bytes the process wrote
    op,           \* what the operation inside the container did
    ret_str,      \* what was read from the return-info file
    ret,          \* what json_loads made of it
    exc,          \* the exception run_container_operation raised
    result,       \* what run_container_operation returned
    environ,      \* os.environ at CF_FEEDSTOCK_OPS_IN_CONTAINER
    use_container, \* the argument of should_use_container
    decision,     \* what should_use_container did
    os_environ,   \* os.environ: the names that are set and their values
    frames,       \* the override_env contexts that are open, innermost last
    override_exc, \* the exception that is propagating through the contexts, "" if none
    obj,          \* the Python value handed to dumps or dump
    json_pc,      \* position in the round trip
    dumped,       \* the document dumps returned
    fp,           \* the document in the file dump wrote
    loaded,       \* the value loads or load returned
    json_error,   \* the exception dumps or loads raised, "" if none
    child,        \* the child process: its state, its exit status, the lines it wrote
    pipes,        \* the lines waiting in the stdout and the stderr pipe
    stop_event,   \* stop_event.is_set()
    thread_pc,    \* position of the two _StreamToStderr threads
    lines,        \* the number of lines each thread has appended
    expired,      \* more than timeout seconds have passed since the start
    main_pc,      \* position of the main thread
    wait_result,  \* how proc.wait(timeout=timeout) ended
    proc_returncode \* proc.returncode: None until the child is reaped

\* the variables of the return path of run_container_operation
retVars == <<cmd, stdout, op, ret_str, ret, exc, result>>

\* the variables of should_use_container
envVars == <<environ, use_container, decision>>

\* the variables of override_env
ovVars == <<os_environ, frames, override_exc>>

\* the variables of the JSON round trip
jsonVars == <<obj, json_pc, dumped, fp, loaded, json_error>>

\* the variables of _subprocess_run_tee and rerender_local
teeVars == <<child, pipes, stop_event, thread_pc, lines, expired, main_pc, wait_result, proc_returncode>>

runVars == <<extra_mounts, run_pc, run_error, stdin_tar, launched, returncode,
             cmd, stdout, op, ret_str, ret, exc, result,
             environ, use_container, decision,
             os_environ, frames, override_exc,
             obj, json_pc, dumped, fp, loaded, json_error,
             child, pipes, stop_event, thread_pc, lines, expired, main_pc, wait_result, proc_returncode>>

vars == <<mounts, buffer, host, host_before, tmpdir, pc, idx, error,
          extra_mounts, run_pc, run_error, stdin_tar, launched, returncode,
          cmd, stdout, op, ret_str, ret, exc, result,
          environ, use_container, decision,
          os_environ, frames, override_exc,
          obj, json_pc, dumped, fp, loaded, json_error,
          child, pipes, stop_event, thread_pc, lines, expired, main_pc, wait_result, proc_returncode>>

----------------------------------------------------------------------------
(* Bounds of the model *)

MaxMounts == 2     \* mounts per call
MaxMembers == 3    \* members per inbound archive
MaxExtraMounts == 2   \* mounts a caller hands to run_container_operation
MaxEntries == 4    \* entries of a directory tree that is packed
MaxDepth == 2      \* override_env contexts open at the same time
MaxItems == 2      \* items of a list, entries of a dict, elements of a set
MaxLines == 2      \* lines the child process writes
MaxErrLen == 4     \* characters of the error string of a return-info record

----------------------------------------------------------------------------
(* Paths *)

Range(s) == {s[i] : i \in DOMAIN s}

IsPrefix(p, q) == Len(p) <= Len(q) /\ SubSeq(q, 1, Len(p)) = p

StrictPrefix(p, q) == Len(p) < Len(q) /\ SubSeq(q, 1, Len(p)) = p

Parent(p) == SubSeq(p, 1, Len(p) - 1)

RelativeTo(q, p) == SubSeq(q, Len(p) + 1, Len(q))

Prefixes(p) == {SubSeq(p, 1, k) : k \in 1..Len(p)}

ProperPrefixes(p) == {SubSeq(p, 1, k) : k \in 1..(Len(p) - 1)}

\* PurePosixPath: absolute or not, and its components after the root
PosixPath(abs, parts) == [absolute |-> abs, parts |-> parts]

CF_FEEDSTOCK_OPS_DIR == PosixPath(TRUE, <<"cf_feedstock_ops_dir">>)

RETURN_INFO_FILE_NAME == "return_info.json"

\* PurePosixPath.is_relative_to
is_relative_to(p, other) ==
    p.absolute = other.absolute /\ IsPrefix(other.parts, p.parts)

\* PurePosixPath / name
Child(p, name) == PosixPath(p.absolute, Append(p.parts, name))

----------------------------------------------------------------------------
(* File systems *)

Dir == [kind |-> "dir", data |-> "", target |-> <<>>]

File(d) == [kind |-> "file", data |-> d, target |-> <<>>]

\* a symbolic link; an absolute target starts with the component "/"
Link(t) == [kind |-> "link", data |-> "", target |-> t]

NoFiles == [p \in {} |-> Dir]

Exists(fs, p) == p = <<>> \/ p \in DOMAIN fs

IsDir(fs, p) == p = <<>> \/ (p \in DOMAIN fs /\ fs[p].kind = "dir")

IsFile(fs, p) == p \in DOMAIN fs /\ fs[p].kind = "file"

Restrict(fs, S) == [p \in S |-> fs[p]]

Overlay(fs, new) ==
    [p \in DOMAIN fs \cup DOMAIN new |-> IF p \in DOMAIN new THEN new[p] ELSE fs[p]]

\* os.makedirs(exist_ok=True) of every path of S that is missing
WithDirs(fs, S) ==
    [p \in DOMAIN fs \cup S |-> IF p \in DOMAIN fs THEN fs[p] ELSE Dir]

\* what lies at and below p, keyed by the path relative to p
TreeAt(fs, p) ==
    LET below == {q \in DOMAIN fs : IsPrefix(p, q)}
    IN  [r \in {RelativeTo(q, p) : q \in below} |-> fs[p \o r]]

----------------------------------------------------------------------------
(* The virtual mount descriptor *)

Mount(h, c, ro) == [host_path |-> h, container_path |-> c, read_only |-> ro]

\* VirtualMount.__post_init__ of virtual_mounts_host.py: "ok" or the ValueError
VirtualMount_post_init(container_path) ==
    IF ~container_path.absolute
    THEN "container_path must be an absolute path"
    ELSE IF ~is_relative_to(container_path, CF_FEEDSTOCK_OPS_DIR)
    THEN "container_path must be a subdirectory of CF_FEEDSTOCK_OPS_DIR"
    ELSE IF container_path = CF_FEEDSTOCK_OPS_DIR
    THEN "container_path must not be CF_FEEDSTOCK_OPS_DIR itself"
    ELSE "ok"

\* VirtualMount.relative_container_path
relative_container_path(m) ==
    RelativeTo(m.container_path.parts, CF_FEEDSTOCK_OPS_DIR.parts)

IGNORE_PATHS == {".git"}

----------------------------------------------------------------------------
(* The hardened inbound unpacker, virtual_mounts_host.py *)

\* the exclude arguments forgotten: every member is extracted
exclude_nothing(name) == FALSE

\* tar --exclude=**/.git/** --exclude=**/.git: GNU tar matches an exclude
\* pattern unanchored, with wildcards crossing "/", against the member name and
\* its leading directories; "**/.git" needs a "/" in front of the component,
\* so a first component of that name is not matched.
Excluded(name) == \E i \in 2..Len(name) : name[i] \in IGNORE_PATHS

\* tar xf - into the scratch directory: the members that are not excluded,
\* and the directories leading to them
TarExtract(members) ==
    LET names   == {n \in DOMAIN members : ~Excluded(n)}
        implied == UNION {ProperPrefixes(n) : n \in names}
    IN  [p \in names \cup implied |-> IF p \in names THEN members[p] ELSE Dir]

Outside == <<"/">>

\* Path.resolve() of a location of the scratch directory, as a path relative
\* to the scratch directory, or Outside. The archives considered carry no
\* link whose target leads through another link.
RECURSIVE Resolve(_, _)
Resolve(cur, rest) ==
    IF rest = <<>> THEN cur
    ELSE IF Head(rest) = "/" THEN Outside
    ELSE IF Head(rest) = ".."
         THEN IF cur = <<>> THEN Outside ELSE Resolve(Parent(cur), Tail(rest))
    ELSE Resolve(Append(cur, Head(rest)), Tail(rest))

\* directory.resolve() in target.parents
ResolvesWithin(fs, p) ==
    LET target == Resolve(Parent(p), fs[p].target)
    IN  target # Outside /\ Len(target) >= 1

\* the validation forgotten: every link is kept
validate_symlinks_keeping_all(fs) == fs

validate_symlinks_within_dir(fs) ==
    LET removed == {p \in DOMAIN fs : fs[p].kind = "link" /\ ~ResolvesWithin(fs, p)}
    IN  Restrict(fs, DOMAIN fs \ removed)

\* the clearing forgotten: the archive is laid over what is there
delete_nothing(fs, target) == fs

\* rglob("*") yields a directory's entries before it descends, so rmtree of a
\* directory takes along whatever lies beneath it
delete_non_ignore_paths(fs, target) ==
    LET entries == {q \in DOMAIN fs : StrictPrefix(target, q)}
        doomed  == {q \in entries :
                      IGNORE_PATHS \cap Range(RelativeTo(q, target)) = {}}
        gone    == {q \in entries : \E r \in doomed : IsPrefix(r, q)}
    IN  Restrict(fs, DOMAIN fs \ gone)

\* shutil.copy2(src, dst): "" or the exception
copy2_error(fs, src, dst) ==
    IF IsDir(fs, dst)
    THEN IF IsDir(fs, Append(dst, src[Len(src)])) THEN "IsADirectoryError" ELSE ""
    ELSE IF Exists(fs, dst) \/ IsDir(fs, Parent(dst)) THEN ""
    ELSE "FileNotFoundError"

\* a destination that is a directory receives the file under the source's name
copy2(fs, scratch, src, dst) ==
    LET to == IF IsDir(fs, dst) THEN Append(dst, src[Len(src)]) ELSE dst
    IN  Overlay(fs, [p \in {to} |-> File(scratch[src].data)])

\* shutil.copytree(src, dst, symlinks=True, dirs_exist_ok=True): "" or the
\* exception. os.scandir(src) comes first, os.makedirs(dst) second.
copytree_error(fs, scratch, src, dst) ==
    IF ~Exists(scratch, src) THEN "FileNotFoundError"
    ELSE IF \E q \in Prefixes(dst) : q \in DOMAIN fs /\ fs[q].kind # "dir"
    THEN "FileExistsError"
    ELSE ""

copytree(fs, scratch, src, dst) ==
    LET tree == TreeAt(scratch, src)
        made == WithDirs(fs, Prefixes(dst))
    IN  Overlay(made, [p \in {dst \o r : r \in DOMAIN tree \ {<<>>}} |->
                          tree[RelativeTo(p, dst)]])

Raise(e) ==
    /\ error' = e
    /\ pc' = "raised"
    /\ tmpdir' = NoFiles

\* (untar << buffer)(timeout=UNTAR_TIMEOUT) returns in time
ExtractArchive ==
    /\ pc = "start"
    /\ tmpdir' = TarExtract(buffer)
    /\ pc' = "extracted"
    /\ UNCHANGED <<mounts, buffer, host, host_before, idx, error>>

\* the mounts cleared before the extraction is known to have succeeded
ExtractTimesOut_after_clearing ==
    /\ pc = "start"
    /\ host' = IF \E i \in DOMAIN mounts : ~mounts[i].read_only
               THEN delete_non_ignore_paths(host,
                       mounts[CHOOSE i \in DOMAIN mounts : ~mounts[i].read_only].host_path)
               ELSE host
    /\ Raise("ProcessTimedOut")
    /\ UNCHANGED <<mounts, buffer, host_before, idx>>

\* the same call raises plumbum's ProcessTimedOut
ExtractTimesOut ==
    /\ pc = "start"
    /\ Raise("ProcessTimedOut")
    /\ UNCHANGED <<mounts, buffer, host, host_before, idx>>

\* tar exits non-zero (a malformed stream): ProcessExecutionError
ExtractFails ==
    /\ pc = "start"
    /\ Raise("ProcessExecutionError")
    /\ UNCHANGED <<mounts, buffer, host, host_before, idx>>

ValidateSymlinks ==
    /\ pc = "extracted"
    /\ tmpdir' = validate_symlinks_within_dir(tmpdir)
    /\ pc' = "mounts"
    /\ idx' = 1
    /\ UNCHANGED <<mounts, buffer, host, host_before, error>>

\* if mount.read_only: continue
SkipReadOnlyMount ==
    /\ pc = "mounts"
    /\ idx <= Len(mounts)
    /\ mounts[idx].read_only
    /\ idx' = idx + 1
    /\ UNCHANGED <<mounts, buffer, host, host_before, tmpdir, pc, error>>

\* one pass of the loop body for a read-write mount
RestoreMount ==
    /\ pc = "mounts"
    /\ idx <= Len(mounts)
    /\ ~mounts[idx].read_only
    /\ LET dst     == mounts[idx].host_path
           src     == relative_container_path(mounts[idx])
           cleared == delete_non_ignore_paths(host, dst)
           e       == IF IsFile(tmpdir, src)
                      THEN copy2_error(cleared, src, dst)
                      ELSE copytree_error(cleared, tmpdir, src, dst)
       IN  IF e # ""
           THEN /\ host' = cleared
                /\ Raise(e)
                /\ UNCHANGED idx
           ELSE /\ host' = IF IsFile(tmpdir, src)
                           THEN copy2(cleared, tmpdir, src, dst)
                           ELSE copytree(cleared, tmpdir, src, dst)
                /\ idx' = idx + 1
                /\ UNCHANGED <<tmpdir, pc, error>>
    /\ UNCHANGED <<mounts, buffer, host_before>>

\* the loop is over; the TemporaryDirectory is removed
UnpackReturns ==
    /\ pc = "mounts"
    /\ idx > Len(mounts)
    /\ pc' = "done"
    /\ tmpdir' = NoFiles
    /\ UNCHANGED <<mounts, buffer, host, host_before, idx, error>>

\* virtual_mounts_host._untar_mounts_from_stream
untar_mounts_from_stream ==
    \/ ExtractArchive
    \/ ExtractTimesOut
    \/ ExtractFails
    \/ ValidateSymlinks
    \/ SkipReadOnlyMount
    \/ RestoreMount
    \/ UnpackReturns

----------------------------------------------------------------------------
(* Text, JSON values and exceptions *)

\* a str is the sequence of its characters; str.find from the left and from
\* the right, 0 when the character does not occur
Find(s, c) ==
    IF \E i \in DOMAIN s : s[i] = c
    THEN CHOOSE i \in DOMAIN s : s[i] = c /\ \A j \in 1..(i - 1) : s[j] # c
    ELSE 0

RFind(s, c) ==
    IF \E i \in DOMAIN s : s[i] = c
    THEN CHOOSE i \in DOMAIN s : s[i] = c /\ \A j \in (i + 1)..Len(s) : s[j] # c
    ELSE 0

\* s.split(c)[0], the same as s.split(c, maxsplit=1)[0]
split_first(s, c) == IF Find(s, c) = 0 THEN s ELSE SubSeq(s, 1, Find(s, c) - 1)

\* s.split(c, maxsplit=1)[1], for an s that holds c
split_rest(s, c) == SubSeq(s, Find(s, c) + 1, Len(s))

\* s.rsplit(c, maxsplit=1)[0]
rsplit_first(s, c) == IF RFind(s, c) = 0 THEN s ELSE SubSeq(s, 1, RFind(s, c) - 1)

Whitespace == {" ", "\n"}

\* str.strip()
RECURSIVE lstrip(_)
lstrip(s) ==
    IF s # <<>> /\ s[1] \in Whitespace THEN lstrip(Tail(s)) ELSE s

RECURSIVE rstrip(_)
rstrip(s) ==
    IF s # <<>> /\ s[Len(s)] \in Whitespace
    THEN rstrip(SubSeq(s, 1, Len(s) - 1))
    ELSE s

strip(s) == rstrip(lstrip(s))

\* the result of a codec: the text, or a UnicodeDecodeError
Decoded(s) == [ok |-> TRUE, chars |-> s]

UnicodeDecodeError == [ok |-> FALSE, chars |-> <<>>]

\* str.encode("raw_unicode_escape"): one byte per character below 256, and
\* no character considered here lies above
raw_unicode_escape(s) == s

\* bytes.decode("unicode_escape"): "\\" is one backslash, "\n" a line feed,
\* "\x" needs two hexadecimal digits (none of the characters considered is
\* one), a backslash at the end is an error, and a backslash before any other
\* character stays as it is
RECURSIVE unicode_escape(_)
unicode_escape(s) ==
    IF s = <<>> THEN Decoded(<<>>)
    ELSE IF s[1] # "\\"
    THEN LET rest == unicode_escape(Tail(s))
         IN  IF rest.ok THEN Decoded(<<s[1]>> \o rest.chars) ELSE UnicodeDecodeError
    ELSE IF Len(s) = 1 THEN UnicodeDecodeError
    ELSE IF s[2] = "x" THEN UnicodeDecodeError
    ELSE LET rest == unicode_escape(SubSeq(s, 3, Len(s)))
             head == IF s[2] = "\\" THEN <<"\\">>
                     ELSE IF s[2] = "n" THEN <<"\n">>
                     ELSE <<"\\", s[2]>>
         IN  IF rest.ok THEN Decoded(head \o rest.chars) ELSE UnicodeDecodeError

\* s.encode("raw_unicode_escape").decode("unicode_escape")
unescape(s) == unicode_escape(raw_unicode_escape(s))

\* the values json_loads returns: a string, null, or an object, which is a
\* function from its keys to values
Str(s) == [type |-> "str", chars |-> s]

Null == [type |-> "null", chars |-> <<>>]

EmptyObject == [k \in {} |-> Null]

\* Python's None where a str is expected
None == [type |-> "none", chars |-> <<>>]

\* res.stdout.decode("utf-8"), or "(cannot decode)" on UnicodeDecodeError
CannotDecode == [decoded |-> FALSE, tar |-> FALSE, members |-> NoFiles, printed |-> <<>>]

stdout_str(out, members) ==
    IF out.utf8
    THEN [decoded |-> TRUE, tar |-> out.tar, members |-> members, printed |-> out.printed]
    ELSE CannotDecode

\* the message of a ContainerRuntimeError: "Error running '<args>' in
\* container - <about>" and what follows it
Message(running, about, rc, cmd_text, out, string, ename, body) ==
    [running |-> running, about |-> about, returncode |-> rc, cmd |-> cmd_text,
     stdout |-> out, string |-> string, ename |-> ename, body |-> body]

NoMessage == Message(<<>>, "", 0, <<>>, CannotDecode, "", <<>>, <<>>)

\* ContainerRuntimeError(error=..., args=..., cmd=..., returncode=...,
\* traceback=...); super().__init__(error) leaves the message in args
ContainerRuntimeError(message, cmd_text, rc, tb) ==
    [type |-> "ContainerRuntimeError", error |-> message, cmd |-> cmd_text,
     returncode |-> rc, traceback |-> tb]

\* an exception of another type
OtherError(type) ==
    [type |-> type, error |-> NoMessage, cmd |-> <<>>, returncode |-> 0,
     traceback |-> None]

NoException == OtherError("")

\* pprint.pformat(cmd): the text that shows the list
pformat(c) == <<"[">> \o c \o <<"]">>

\* nothing written yet: tar says the bytes are a tar stream, utf8 that they
\* decode as UTF-8, printed holds the documents printed as text
NoStdout == [tar |-> FALSE, utf8 |-> TRUE, printed |-> <<>>]

\* no operation has run inside the container
NoOp == [kind |-> "none", kwargs |-> EmptyObject, value |-> Null,
         repr |-> <<>>, format_exc |-> <<>>]

NotRead == [read |-> FALSE, text |-> ""]

NotReturned == [returned |-> FALSE, value |-> Null]

\* os.environ without the variable, and with a value
Unset == [set |-> FALSE, value |-> <<>>]

Setting(v) == [set |-> TRUE, value |-> v]

\* should_use_container has not been called
NotCalled == [called |-> FALSE, raised |-> FALSE, value |-> FALSE]

\* Python values and JSON documents: the type, the text of a scalar, the items
\* of a list or array, the entries of a dict or object, the elements of a set
Value(type, scalar, list, dict, set) ==
    [type |-> type, scalar |-> scalar, list |-> list, dict |-> dict, set |-> set]

PyNone == Value("NoneType", "", <<>>, EmptyObject, {})

PyTrue == Value("bool", "True", <<>>, EmptyObject, {})

PyInt(n) == Value("int", n, <<>>, EmptyObject, {})

PyStr(c) == Value("str", c, <<>>, EmptyObject, {})

PyList(items) == Value("list", "", items, EmptyObject, {})

PyDict(entries) == Value("dict", "", <<>>, entries, {})

PySet(elements) == Value("set", "", <<>>, EmptyObject, elements)

JNull == Value("null", "", <<>>, EmptyObject, {})

JTrue == Value("true", "", <<>>, EmptyObject, {})

JNumber(n) == Value("number", n, <<>>, EmptyObject, {})

JString(c) == Value("string", c, <<>>, EmptyObject, {})

JArray(items) == Value("array", "", items, EmptyObject, {})

JObject(entries) == Value("object", "", <<>>, entries, {})

\* no document has been written
NoDoc == Value("nothing", "", <<>>, EmptyObject, {})

\* dumps has not been called
JsonIdle ==
    /\ obj = PyNone
    /\ json_pc = "idle"
    /\ dumped = NoDoc
    /\ fp = NoDoc
    /\ loaded = PyNone
    /\ json_error = ""

\* proc.returncode before the child is reaped, and after
NotReaped == [known |-> FALSE, code |-> 0]

Reaped(code) == [known |-> TRUE, code |-> code]

\* _subprocess_run_tee has not been called
TeeIdle ==
    /\ child = [state |-> "not started", status |-> 0, wrote |-> 0]
    /\ pipes = <<0, 0>>
    /\ stop_event = FALSE
    /\ thread_pc = <<"not started", "not started">>
    /\ lines = <<0, 0>>
    /\ expired = FALSE
    /\ main_pc = "caller"
    /\ wait_result = "none"
    /\ proc_returncode = NotReaped

\* no call of the unpack, of run_container_operation or of
\* should_use_container is under way
CallIdle ==
    /\ mounts = <<>>
    /\ buffer = NoFiles
    /\ host = NoFiles
    /\ host_before = NoFiles
    /\ tmpdir = NoFiles
    /\ pc = "idle"
    /\ idx = 0
    /\ error = ""
    /\ extra_mounts = <<>>
    /\ run_pc = "caller"
    /\ run_error = ""
    /\ stdin_tar = NoFiles
    /\ launched = FALSE
    /\ returncode = 0
    /\ cmd = <<>>
    /\ stdout = NoStdout
    /\ op = NoOp
    /\ ret_str = NotRead
    /\ ret = EmptyObject
    /\ exc = NoException
    /\ result = NotReturned
    /\ environ = Unset
    /\ use_container = "None"
    /\ decision = NotCalled

callVars == <<mounts, buffer, host, host_before, tmpdir, pc, idx, error,
              extra_mounts, run_pc, run_error, stdin_tar, launched, returncode,
              cmd, stdout, op, ret_str, ret, exc, result,
              environ, use_container, decision>>

\* no override_env context is open and the environment is empty
OverrideIdle ==
    /\ os_environ = EmptyObject
    /\ frames = <<>>
    /\ override_exc = ""

----------------------------------------------------------------------------
(* Inputs of the unpack *)

UnderRoot(parts) == PosixPath(TRUE, CF_FEEDSTOCK_OPS_DIR.parts \o parts)

\* the mounts a caller can construct, out of these host and container paths
UnpackMounts ==
    {m \in { Mount(<<"a">>, UnderRoot(<<"a">>), FALSE),
             Mount(<<"b">>, UnderRoot(<<"b">>), TRUE),
             Mount(<<"b">>, UnderRoot(<<"b">>), FALSE),
             Mount(<<"a", "ro">>, UnderRoot(<<"b">>), TRUE),
             Mount(<<"a", "sub">>, UnderRoot(<<"b">>), FALSE),
             Mount(<<"g">>, UnderRoot(<<".git">>), FALSE),
             Mount(<<"f">>, UnderRoot(<<"f">>), FALSE),
             Mount(<<"a">>, CF_FEEDSTOCK_OPS_DIR, FALSE) } :
        VirtualMount_post_init(m.container_path) = "ok"}

MountSeqs(menu, n) ==
    UNION {{s \in [1..k -> menu] : \A i, j \in 1..k : s[i] = s[j] => i = j} :
             k \in 0..n}

\* the members an inbound archive is made of
ArchiveMembers ==
    (<<"a">> :> Dir)
    @@ (<<"a", "x">> :> File("1"))
    @@ (<<"a", "z">> :> File("3"))
    @@ (<<"a", ".git", "keep">> :> File("9"))
    @@ (<<"a", "sub", ".git", "keep">> :> File("9"))
    @@ (<<".git", "x">> :> File("9"))
    @@ (<<"b", "y">> :> File("9"))
    @@ (<<"a", "evil">> :> Link(<<"/", "etc">>))
    @@ (<<"a", "up">> :> Link(<<"..", "..">>))
    @@ (<<"a", "ben">> :> Link(<<"t">>))
    @@ (<<"a", "toig">> :> Link(<<".git">>))
    @@ (<<"a", "cross">> :> Link(<<"..", "b", "y">>))
    @@ (<<"f">> :> File("5"))

Archives ==
    {Restrict(ArchiveMembers, S) :
        S \in {T \in SUBSET DOMAIN ArchiveMembers : Cardinality(T) <= MaxMembers}}

\* a checked-out feedstock with version-control directories at two depths,
\* and a directory where a single-file mount points
HostFull ==
    (<<"a">> :> Dir)
    @@ (<<"a", "x">> :> File("1"))
    @@ (<<"a", "old">> :> File("0"))
    @@ (<<"a", ".git">> :> Dir)
    @@ (<<"a", ".git", "keep">> :> File("k"))
    @@ (<<"a", "sub">> :> Dir)
    @@ (<<"a", "sub", ".git">> :> Dir)
    @@ (<<"a", "sub", ".git", "keep">> :> File("k"))
    @@ (<<"a", "ro">> :> Dir)
    @@ (<<"a", "ro", "y">> :> File("2"))
    @@ (<<"b">> :> Dir)
    @@ (<<"b", "y">> :> File("2"))
    @@ (<<"g">> :> Dir)
    @@ (<<"f">> :> Dir)

HostPlain ==
    (<<"a">> :> Dir)
    @@ (<<"a", "x">> :> File("1"))
    @@ (<<"b">> :> Dir)
    @@ (<<"b", "y">> :> File("2"))
    @@ (<<"f">> :> File("0"))

HostStates == {HostFull, HostPlain, NoFiles}

Init ==
    /\ mounts \in MountSeqs(UnpackMounts, MaxMounts)
    /\ buffer \in Archives
    /\ host \in HostStates
    /\ host_before = host
    /\ tmpdir = NoFiles
    /\ pc = "start"
    /\ idx = 0
    /\ error = ""
    /\ extra_mounts = <<>>
    /\ run_pc = "idle"
    /\ run_error = ""
    /\ stdin_tar = NoFiles
    /\ launched = FALSE
    /\ returncode = 0
    /\ cmd = <<>>
    /\ stdout = NoStdout
    /\ op = NoOp
    /\ ret_str = NotRead
    /\ ret = EmptyObject
    /\ exc = NoException
    /\ result = NotReturned
    /\ environ = Unset
    /\ use_container = "None"
    /\ decision = NotCalled
    /\ OverrideIdle
    /\ TeeIdle
    /\ JsonIdle

Next == untar_mounts_from_stream /\ UNCHANGED runVars

Spec == Init /\ [][Next]_vars

----------------------------------------------------------------------------
(* The operation invoker, container_utils.py *)

\* VirtualMount.__post_init__ of container_utils.py: "ok" or the ValueError
ContainerUtilsVirtualMount_post_init(container_path) ==
    IF ~container_path.absolute
    THEN "container_path must be an absolute path"
    ELSE IF ~is_relative_to(container_path, CF_FEEDSTOCK_OPS_DIR)
    THEN "container_path must be a subdirectory of CF_FEEDSTOCK_OPS_DIR"
    ELSE "ok"

post_init(cls, container_path) ==
    IF cls = "virtual_mounts_host"
    THEN VirtualMount_post_init(container_path)
    ELSE ContainerUtilsVirtualMount_post_init(container_path)

MountClasses == {"virtual_mounts_host", "container_utils"}

RunHostPaths == {<<"a">>, <<"a", "ro">>, <<"w">>}

RunContainerPaths ==
    { UnderRoot(<<"a">>),
      UnderRoot(<<"b">>),
      UnderRoot(<<RETURN_INFO_FILE_NAME>>),
      UnderRoot(<<RETURN_INFO_FILE_NAME, "subdir">>),
      CF_FEEDSTOCK_OPS_DIR,
      PosixPath(FALSE, <<"relative", "path">>),
      PosixPath(TRUE, <<"tmp">>) }

\* the caller constructs one more mount, with either class
ConstructMount ==
    /\ run_pc = "caller"
    /\ Len(extra_mounts) < MaxExtraMounts
    /\ \E cls \in MountClasses, h \in RunHostPaths,
          c \in RunContainerPaths, ro \in BOOLEAN :
          /\ post_init(cls, c) = "ok"
          /\ extra_mounts' = Append(extra_mounts, Mount(h, c, ro))
    /\ UNCHANGED <<mounts, buffer, host, host_before, tmpdir, pc, idx, error,
                   run_pc, run_error, stdin_tar, launched, returncode>>
    /\ UNCHANGED retVars
    /\ UNCHANGED envVars
    /\ UNCHANGED ovVars
    /\ UNCHANGED teeVars
    /\ UNCHANGED jsonVars

\* the constructor raises ValueError and the caller never makes the call
ConstructMountRaises ==
    /\ run_pc = "caller"
    /\ Len(extra_mounts) < MaxExtraMounts
    /\ \E cls \in MountClasses, c \in RunContainerPaths :
          /\ post_init(cls, c) # "ok"
          /\ run_error' = post_init(cls, c)
    /\ run_pc' = "constructor raised"
    /\ UNCHANGED <<mounts, buffer, host, host_before, tmpdir, pc, idx, error,
                   extra_mounts, stdin_tar, launched, returncode>>
    /\ UNCHANGED retVars
    /\ UNCHANGED envVars
    /\ UNCHANGED ovVars
    /\ UNCHANGED teeVars
    /\ UNCHANGED jsonVars

\* VirtualMount.to_cf_feedstock_ops_dir of container_utils.py
to_cf_feedstock_ops_dir ==
    /\ run_pc = "caller"
    /\ Len(extra_mounts) < MaxExtraMounts
    /\ \E h \in RunHostPaths, ro \in BOOLEAN :
          /\ ContainerUtilsVirtualMount_post_init(CF_FEEDSTOCK_OPS_DIR) = "ok"
          /\ extra_mounts' = Append(extra_mounts, Mount(h, CF_FEEDSTOCK_OPS_DIR, ro))
    /\ UNCHANGED <<mounts, buffer, host, host_before, tmpdir, pc, idx, error,
                   run_pc, run_error, stdin_tar, launched, returncode>>
    /\ UNCHANGED retVars
    /\ UNCHANGED envVars
    /\ UNCHANGED ovVars
    /\ UNCHANGED teeVars
    /\ UNCHANGED jsonVars

\* the TemporaryDirectory of run_container_operation
RunTmpDir == <<"tmp">>

return_info_file == Append(RunTmpDir, RETURN_INFO_FILE_NAME)

\* leaving the with block removes the temporary directory
WithoutRunTmpDir(fs) ==
    Restrict(fs, {p \in DOMAIN fs : ~IsPrefix(RunTmpDir, p)})

RunRaise(e, x, fs) ==
    /\ run_error' = e
    /\ exc' = x
    /\ run_pc' = "raised"
    /\ host' = WithoutRunTmpDir(fs)

\* get_default_container_run_args, without the mounts and the limits
ContainerRunArgs ==
    <<"docker", "run", "-e", "CF_FEEDSTOCK_OPS_IN_CONTAINER=true",
      "--security-opt=no-new-privileges", "--read-only", "--cap-drop=all",
      "--rm", "-i">>

\* get_default_container_name()
ContainerName == "condaforge/conda-forge-feedstock-ops"

\* the args of the callers
RunArgs ==
    { <<"conda-forge-feedstock-ops-container", "parse-package-and-feedstock-names">>,
      <<"conda-forge-feedstock-ops-container", "lint">> }

\* cmd = [*run args, *proxy args, *extra args, name, *args], the proxy mode
\* off and no extra arguments
Cmd(args) == ContainerRunArgs \o <<ContainerName>> \o args

\* the args of a command line
args_of(c) == SubSeq(c, Len(ContainerRunArgs) + 2, Len(c))

\* run_container_operation up to the mount list: the command, the temporary
\* directory, the empty return-info file, its mount and the caller's mounts
RunStart ==
    /\ run_pc = "caller"
    /\ host' = Overlay(host, (RunTmpDir :> Dir) @@ (return_info_file :> File("")))
    /\ mounts' = <<Mount(return_info_file,
                         Child(CF_FEEDSTOCK_OPS_DIR, RETURN_INFO_FILE_NAME),
                         FALSE)>> \o extra_mounts
    /\ cmd' \in {Cmd(a) : a \in RunArgs}
    /\ run_pc' = "packing"
    /\ UNCHANGED <<buffer, host_before, tmpdir, pc, idx, error,
                   extra_mounts, run_error, stdin_tar, launched, returncode>>
    /\ UNCHANGED <<stdout, op, ret_str, ret, exc, result>>
    /\ UNCHANGED envVars
    /\ UNCHANGED ovVars
    /\ UNCHANGED teeVars
    /\ UNCHANGED jsonVars

\* the archive name of a relative container path; that of the root is "."
ArcName(rel) == IF rel = <<>> THEN <<".">> ELSE rel

\* tar.add(mount.host_path, arcname=mount.relative_container_path), in order
RECURSIVE mounts_to_tar(_, _)
mounts_to_tar(fs, ms) ==
    IF ms = <<>> THEN NoFiles
    ELSE LET m    == ms[Len(ms)]
             tree == TreeAt(fs, m.host_path)
             arc  == ArcName(relative_container_path(m))
         IN  Overlay(mounts_to_tar(fs, SubSeq(ms, 1, Len(ms) - 1)),
                     [n \in {arc \o r : r \in DOMAIN tree} |->
                         tree[RelativeTo(n, arc)]])

PackMounts ==
    /\ run_pc = "packing"
    /\ \A i \in DOMAIN mounts : Exists(host, mounts[i].host_path)
    /\ stdin_tar' = mounts_to_tar(host, mounts)
    /\ run_pc' = "launching"
    /\ UNCHANGED <<mounts, buffer, host, host_before, tmpdir, pc, idx, error,
                   extra_mounts, run_error, launched, returncode>>
    /\ UNCHANGED retVars
    /\ UNCHANGED envVars
    /\ UNCHANGED ovVars
    /\ UNCHANGED teeVars
    /\ UNCHANGED jsonVars

\* tar.add of a host path that does not exist
PackMountsRaises ==
    /\ run_pc = "packing"
    /\ \E i \in DOMAIN mounts : ~Exists(host, mounts[i].host_path)
    /\ RunRaise("FileNotFoundError", OtherError("FileNotFoundError"), host)
    /\ UNCHANGED <<mounts, buffer, host_before, tmpdir, pc, idx, error,
                   extra_mounts, stdin_tar, launched, returncode>>
    /\ UNCHANGED <<cmd, stdout, op, ret_str, ret, result>>
    /\ UNCHANGED envVars
    /\ UNCHANGED ovVars
    /\ UNCHANGED teeVars
    /\ UNCHANGED jsonVars

\* what the container may write to its standard output
ContainerOutputMembers ==
    (<<"a", "x">> :> File("9"))
    @@ (<<"a", "z">> :> File("3"))
    @@ (<<"a", "evil">> :> Link(<<"/", "etc">>))

\* json.loads of the texts a return-info file may hold; a text that is not
\* listed (the empty placeholder among them) is not JSON
json_loads_table ==
    ("{}" :> EmptyObject)
    @@ ("{\"data\": \"D\"}" :> ("data" :> Str(<<"D">>)))
    @@ ("{\"data\": null, \"error\": \"K(x)\", \"traceback\": \"T\"}" :>
           (("data" :> Null) @@ ("error" :> Str(<<"K", "(", "x", ")">>))
            @@ ("traceback" :> Str(<<"T">>))))

\* the content of a file whose bytes are not UTF-8
NotUtf8 == "(bytes ff fe)"

ReturnInfoTexts == DOMAIN json_loads_table \cup {"", "not json", NotUtf8}

\* json_loads(ret_str): the value, or json.JSONDecodeError
json_loads(text) ==
    IF text \in DOMAIN json_loads_table
    THEN [ok |-> TRUE, value |-> json_loads_table[text]]
    ELSE [ok |-> FALSE, value |-> EmptyObject]

\* archives of these members, with or without a return-info file
ContainerOutputs ==
    LET info == {NoFiles} \cup
                {(<<RETURN_INFO_FILE_NAME>> :> File(t)) : t \in ReturnInfoTexts}
        all  == {Overlay(Restrict(ContainerOutputMembers, S), i) :
                    S \in SUBSET DOMAIN ContainerOutputMembers, i \in info}
    IN  {b \in all : Cardinality(DOMAIN b) <= MaxMembers}

\* subprocess.run(cmd, stdout=PIPE, stdin=stdin_tar_input) with a process
\* that writes what it likes: a tar stream or not, UTF-8 or not
LaunchContainer ==
    /\ run_pc = "launching"
    /\ launched' = TRUE
    /\ returncode' \in {0, 1}
    /\ \E tar \in BOOLEAN, utf8 \in BOOLEAN :
          /\ stdout' = [tar |-> tar, utf8 |-> utf8, printed |-> <<>>]
          /\ IF tar THEN buffer' \in ContainerOutputs ELSE buffer' = NoFiles
    /\ run_pc' = "exited"
    /\ UNCHANGED <<mounts, host, host_before, tmpdir, pc, idx, error,
                   extra_mounts, run_error, stdin_tar>>
    /\ UNCHANGED <<cmd, op, ret_str, ret, exc, result>>
    /\ UNCHANGED envVars
    /\ UNCHANGED ovVars
    /\ UNCHANGED teeVars
    /\ UNCHANGED jsonVars

\* the keyword parameters of the commands: none, or --timeout
BotKwargs == {EmptyObject, ("timeout" :> Null)}

\* what func(**kwargs) does: it returns a value, or raises an Exception e
\* with repr(e) and traceback.format_exc() as given, or raises a
\* BaseException that is no Exception (SystemExit, KeyboardInterrupt)
BotOutcomes ==
    { [kind |-> "returns", kwargs |-> k, value |-> v,
       repr |-> <<>>, format_exc |-> <<>>] :
         k \in BotKwargs, v \in {Null, Str(<<"D">>)} }
    \cup
    { [kind |-> "raises Exception", kwargs |-> k, value |-> Null,
       repr |-> <<"K", "(", "'", "x", "'", ")">>, format_exc |-> t] :
         k \in BotKwargs, t \in {<<"T", "\n", "K", ":", " ", "x">>,
                                 <<"T", "\n", "\\", "x", "\n", "K", ":", " ", "x">>} }
    \cup
    { [kind |-> "raises BaseException", kwargs |-> k, value |-> Null,
       repr |-> <<>>, format_exc |-> <<>>] : k \in BotKwargs }

\* the record _run_bot_task builds: ret = copy.copy(kwargs), then data, and
\* error and traceback in the except clause
bot_task_record(o) ==
    IF o.kind = "returns"
    THEN ("data" :> o.value) @@ o.kwargs
    ELSE ("data" :> Null) @@ ("error" :> Str(o.repr))
         @@ ("traceback" :> Str(o.format_exc)) @@ o.kwargs

\* the process is the command of __main__.py: _run_bot_task runs the
\* operation and prints dumps(ret) to the standard output; except Exception
\* does not catch a BaseException, which ends the process with nothing printed
RunBotTask ==
    /\ run_pc = "launching"
    /\ launched' = TRUE
    /\ \E o \in BotOutcomes :
          /\ op' = o
          /\ IF o.kind = "raises BaseException"
             THEN /\ stdout' = [tar |-> FALSE, utf8 |-> TRUE, printed |-> <<>>]
                  /\ returncode' \in {0, 1}
             ELSE /\ stdout' = [tar |-> FALSE, utf8 |-> TRUE,
                                printed |-> <<bot_task_record(o)>>]
                  /\ returncode' = 0
    /\ buffer' = NoFiles
    /\ run_pc' = "exited"
    /\ UNCHANGED <<mounts, host, host_before, tmpdir, pc, idx, error,
                   extra_mounts, run_error, stdin_tar>>
    /\ UNCHANGED <<cmd, ret_str, ret, exc, result>>
    /\ UNCHANGED envVars
    /\ UNCHANGED ovVars
    /\ UNCHANGED teeVars
    /\ UNCHANGED jsonVars

\* the error raised on a return code: the exit code and the output forgotten
RaiseOnReturnCode_without_context ==
    /\ run_pc = "exited"
    /\ returncode # 0
    /\ RunRaise("ContainerRuntimeError: return code",
                ContainerRuntimeError(
                    Message(args_of(cmd), "return code", 0, pformat(cmd),
                            CannotDecode, "", <<>>, <<>>),
                    pformat(cmd), 0, None),
                host)
    /\ UNCHANGED <<mounts, buffer, host_before, tmpdir, pc, idx, error,
                   extra_mounts, stdin_tar, launched, returncode>>
    /\ UNCHANGED <<cmd, stdout, op, ret_str, ret, result>>
    /\ UNCHANGED envVars
    /\ UNCHANGED ovVars
    /\ UNCHANGED teeVars
    /\ UNCHANGED jsonVars

\* if res.returncode != 0: raise ContainerRuntimeError
RaiseOnReturnCode ==
    /\ run_pc = "exited"
    /\ returncode # 0
    /\ RunRaise("ContainerRuntimeError: return code",
                ContainerRuntimeError(
                    Message(args_of(cmd), "return code", returncode, pformat(cmd),
                            stdout_str(stdout, buffer), "", <<>>, <<>>),
                    pformat(cmd), returncode, None),
                host)
    /\ UNCHANGED <<mounts, buffer, host_before, tmpdir, pc, idx, error,
                   extra_mounts, stdin_tar, launched, returncode>>
    /\ UNCHANGED <<cmd, stdout, op, ret_str, ret, result>>
    /\ UNCHANGED envVars
    /\ UNCHANGED ovVars
    /\ UNCHANGED teeVars
    /\ UNCHANGED jsonVars

\* the ContainerRuntimeError of the except clause around the unpack
ExtractingError ==
    ContainerRuntimeError(
        Message(args_of(cmd), "error while extracting virtual mounts", 0,
                pformat(cmd), stdout_str(stdout, buffer), "", <<>>, <<>>),
        pformat(cmd), returncode, None)

\* tarfile.open(fileobj=buffer) of container_utils._untar_mounts_from_stream
OpenOutput ==
    /\ run_pc = "exited"
    /\ returncode = 0
    /\ stdout.tar
    /\ run_pc' = "untar"
    /\ idx' = 1
    /\ UNCHANGED <<mounts, buffer, host, host_before, tmpdir, pc, error,
                   extra_mounts, run_error, stdin_tar, launched, returncode>>
    /\ UNCHANGED retVars
    /\ UNCHANGED envVars
    /\ UNCHANGED ovVars
    /\ UNCHANGED teeVars
    /\ UNCHANGED jsonVars

\* the tarfile.ReadError let through as it is
OpenOutputFails_unwrapped ==
    /\ run_pc = "exited"
    /\ returncode = 0
    /\ ~stdout.tar
    /\ RunRaise("ReadError", OtherError("ReadError"), host)
    /\ UNCHANGED <<mounts, buffer, host_before, tmpdir, pc, idx, error,
                   extra_mounts, stdin_tar, launched, returncode>>
    /\ UNCHANGED <<cmd, stdout, op, ret_str, ret, result>>
    /\ UNCHANGED envVars
    /\ UNCHANGED ovVars
    /\ UNCHANGED teeVars
    /\ UNCHANGED jsonVars

\* the bytes are no tar stream: tarfile.ReadError, which run_container_operation
\* wraps
OpenOutputFails ==
    /\ run_pc = "exited"
    /\ returncode = 0
    /\ ~stdout.tar
    /\ RunRaise("ContainerRuntimeError: extracting virtual mounts",
                ExtractingError, host)
    /\ UNCHANGED <<mounts, buffer, host_before, tmpdir, pc, idx, error,
                   extra_mounts, stdin_tar, launched, returncode>>
    /\ UNCHANGED <<cmd, stdout, op, ret_str, ret, result>>
    /\ UNCHANGED envVars
    /\ UNCHANGED ovVars
    /\ UNCHANGED teeVars
    /\ UNCHANGED jsonVars

\* the members _untar_directory_or_file selects
members_of(tar, rel) == {n \in DOMAIN tar : IsPrefix(ArcName(rel), n)}

\* tar.extract(member, target_dir_or_file.parent) writes here
extract_path(target, n) == Parent(target) \o n

\* filter="data" refuses a link to an absolute path or out of the destination
refused_by_filter(tar, n) ==
    tar[n].kind = "link" /\ Resolve(Parent(n), tar[n].target) = Outside

\* the extraction of the member fails on what is already there
blocked_by_host(fs, tar, target, n) ==
    \/ tar[n].kind = "file" /\ IsDir(fs, extract_path(target, n))
    \/ \E q \in ProperPrefixes(extract_path(target, n)) :
          q \in DOMAIN fs /\ fs[q].kind # "dir"

\* the members S extracted below the parent of the mount's host path; a
\* directory that is already there stays as it is
untar_directory_or_file(fs, tar, S, target) ==
    LET written == {n \in S : ~(tar[n].kind = "dir"
                                /\ extract_path(target, n) \in DOMAIN fs)}
        made    == WithDirs(fs, UNION {ProperPrefixes(extract_path(target, n)) : n \in S})
    IN  Overlay(made, [p \in {extract_path(target, n) : n \in written} |->
                          tar[RelativeTo(p, Parent(target))]])

ContainerUtilsSkipReadOnlyMount ==
    /\ run_pc = "untar"
    /\ idx <= Len(mounts)
    /\ mounts[idx].read_only
    /\ idx' = idx + 1
    /\ UNCHANGED <<mounts, buffer, host, host_before, tmpdir, pc, error,
                   extra_mounts, run_pc, run_error, stdin_tar, launched, returncode>>
    /\ UNCHANGED retVars
    /\ UNCHANGED envVars
    /\ UNCHANGED ovVars
    /\ UNCHANGED teeVars
    /\ UNCHANGED jsonVars

\* one pass of the loop of container_utils._untar_mounts_from_stream for a
\* read-write mount; when a member fails, the members before it in the
\* archive have been extracted, and run_container_operation wraps the error
ContainerUtilsUntarMount ==
    /\ run_pc = "untar"
    /\ idx <= Len(mounts)
    /\ ~mounts[idx].read_only
    /\ LET target  == mounts[idx].host_path
           chosen  == members_of(buffer, relative_container_path(mounts[idx]))
           failing == {n \in chosen : \/ refused_by_filter(buffer, n)
                                      \/ blocked_by_host(host, buffer, target, n)}
       IN  IF failing = {}
           THEN /\ host' = untar_directory_or_file(host, buffer, chosen, target)
                /\ idx' = idx + 1
                /\ UNCHANGED <<run_pc, run_error, exc>>
           ELSE /\ \E S \in SUBSET (chosen \ failing) :
                      RunRaise("ContainerRuntimeError: extracting virtual mounts",
                               ExtractingError,
                               untar_directory_or_file(host, buffer, S, target))
                /\ UNCHANGED idx
    /\ UNCHANGED <<mounts, buffer, host_before, tmpdir, pc, error,
                   extra_mounts, stdin_tar, launched, returncode>>
    /\ UNCHANGED <<cmd, stdout, op, ret_str, ret, result>>
    /\ UNCHANGED envVars
    /\ UNCHANGED ovVars
    /\ UNCHANGED teeVars
    /\ UNCHANGED jsonVars

ContainerUtilsUntarReturns ==
    /\ run_pc = "untar"
    /\ idx > Len(mounts)
    /\ run_pc' = "unpacked"
    /\ UNCHANGED <<mounts, buffer, host, host_before, tmpdir, pc, idx, error,
                   extra_mounts, run_error, stdin_tar, launched, returncode>>
    /\ UNCHANGED retVars
    /\ UNCHANGED envVars
    /\ UNCHANGED ovVars
    /\ UNCHANGED teeVars
    /\ UNCHANGED jsonVars

\* container_utils._untar_mounts_from_stream
container_utils_untar_mounts_from_stream ==
    \/ OpenOutput
    \/ OpenOutputFails
    \/ ContainerUtilsSkipReadOnlyMount
    \/ ContainerUtilsUntarMount
    \/ ContainerUtilsUntarReturns

\* the text of the return-info file on the host
return_info_text(fs) ==
    IF return_info_file \in DOMAIN fs /\ fs[return_info_file].kind = "file"
    THEN fs[return_info_file].data
    ELSE ""

\* with return_info_file.open("r") as f: ret_str = f.read(), then
\* ret = json_loads(ret_str); json.JSONDecodeError becomes a
\* ContainerRuntimeError that shows the string; the with block ends. f.read()
\* decodes the bytes and raises UnicodeDecodeError outside the try
ReadReturnInfo ==
    /\ run_pc = "unpacked"
    /\ LET text == return_info_text(host)
           got  == json_loads(text)
       IN  IF text = NotUtf8
           THEN /\ RunRaise("UnicodeDecodeError", OtherError("UnicodeDecodeError"), host)
                /\ UNCHANGED <<ret_str, ret>>
           ELSE
           /\ ret_str' = [read |-> TRUE, text |-> text]
           /\ IF got.ok
              THEN /\ ret' = got.value
                   /\ run_pc' = "parsed"
                   /\ host' = WithoutRunTmpDir(host)
                   /\ UNCHANGED <<run_error, exc>>
              ELSE /\ RunRaise("ContainerRuntimeError: JSON could not be parsed",
                               ContainerRuntimeError(
                                   Message(args_of(cmd),
                                           "JSON could not be parsed from return info file",
                                           0, pformat(cmd), CannotDecode, text,
                                           <<>>, <<>>),
                                   pformat(cmd), returncode, None),
                               host)
                   /\ UNCHANGED ret
    /\ UNCHANGED <<mounts, buffer, host_before, tmpdir, pc, idx, error,
                   extra_mounts, stdin_tar, launched, returncode>>
    /\ UNCHANGED <<cmd, stdout, op, result>>
    /\ UNCHANGED envVars
    /\ UNCHANGED ovVars
    /\ UNCHANGED teeVars
    /\ UNCHANGED jsonVars

\* return ret["data"], a KeyError when the record has no data
ReturnData ==
    /\ run_pc = "parsed"
    /\ "error" \notin DOMAIN ret
    /\ IF "data" \in DOMAIN ret
       THEN /\ result' = [returned |-> TRUE, value |-> ret["data"]]
            /\ run_pc' = "returned"
            /\ UNCHANGED <<run_error, exc>>
       ELSE /\ run_error' = "KeyError"
            /\ exc' = OtherError("KeyError")
            /\ run_pc' = "raised"
            /\ UNCHANGED result
    /\ UNCHANGED <<mounts, buffer, host, host_before, tmpdir, pc, idx, error,
                   extra_mounts, stdin_tar, launched, returncode>>
    /\ UNCHANGED <<cmd, stdout, op, ret_str, ret>>
    /\ UNCHANGED envVars
    /\ UNCHANGED ovVars
    /\ UNCHANGED teeVars
    /\ UNCHANGED jsonVars

\* the two parts of ret["error"]: ename and ret_str of the if, elif and else
\* branches, each the result of a codec
error_parts(e) ==
    IF Find(e, "(") # 0 /\ Find(e, ")") # 0
    THEN [ename |-> unescape(strip(split_first(e, "("))),
          body  |-> unescape(rsplit_first(split_rest(e, "("), ")"))]
    ELSE IF Find(e, ":") # 0
    THEN [ename |-> unescape(strip(split_first(e, ":"))),
          body  |-> unescape(strip(split_rest(e, ":")))]
    ELSE [ename |-> Decoded(<<"<", "could not be parsed">>),
          body  |-> Decoded(e)]

\* what the error branch does with a record: the exception it ends in
reconstruct(r, c, rc) ==
    IF r["error"].type # "str" THEN OtherError("TypeError")
    ELSE LET parts == error_parts(r["error"].chars)
         IN  IF ~parts.body.ok \/ ~parts.ename.ok
             THEN OtherError("UnicodeDecodeError")
             ELSE IF "traceback" \notin DOMAIN r THEN OtherError("KeyError")
             ELSE IF r["traceback"].type # "str" THEN OtherError("AttributeError")
             ELSE IF ~unescape(r["traceback"].chars).ok
             THEN OtherError("UnicodeDecodeError")
             ELSE ContainerRuntimeError(
                      Message(args_of(c), "error raised", 0, pformat(c),
                              CannotDecode, "", parts.ename.chars,
                              parts.body.chars),
                      pformat(c), rc, Str(unescape(r["traceback"].chars).chars))

\* if "error" in ret: raise ContainerRuntimeError
RaiseRemoteError ==
    /\ run_pc = "parsed"
    /\ "error" \in DOMAIN ret
    /\ exc' = reconstruct(ret, cmd, returncode)
    /\ run_error' = IF exc'.type = "ContainerRuntimeError"
                    THEN "ContainerRuntimeError: error raised"
                    ELSE exc'.type
    /\ run_pc' = "raised"
    /\ UNCHANGED <<mounts, buffer, host, host_before, tmpdir, pc, idx, error,
                   extra_mounts, stdin_tar, launched, returncode>>
    /\ UNCHANGED <<cmd, stdout, op, ret_str, ret, result>>
    /\ UNCHANGED envVars
    /\ UNCHANGED ovVars
    /\ UNCHANGED teeVars
    /\ UNCHANGED jsonVars

run_container_operation ==
    \/ RunStart
    \/ PackMounts
    \/ PackMountsRaises
    \/ LaunchContainer
    \/ RunBotTask
    \/ RaiseOnReturnCode
    \/ container_utils_untar_mounts_from_stream
    \/ ReadReturnInfo
    \/ ReturnData
    \/ RaiseRemoteError

\* the host of a call: the feedstock checkout and a second directory, or
\* nothing at the host paths of the mounts
HostRun == HostFull @@ (<<"w">> :> Dir)

InitRun ==
    /\ mounts = <<>>
    /\ buffer = NoFiles
    /\ host \in {HostRun, NoFiles}
    /\ host_before = host
    /\ tmpdir = NoFiles
    /\ pc = "idle"
    /\ idx = 0
    /\ error = ""
    /\ extra_mounts = <<>>
    /\ run_pc = "caller"
    /\ run_error = ""
    /\ stdin_tar = NoFiles
    /\ launched = FALSE
    /\ returncode = 0
    /\ cmd = <<>>
    /\ stdout = NoStdout
    /\ op = NoOp
    /\ ret_str = NotRead
    /\ ret = EmptyObject
    /\ exc = NoException
    /\ result = NotReturned
    /\ environ = Unset
    /\ use_container = "None"
    /\ decision = NotCalled
    /\ OverrideIdle
    /\ TeeIdle
    /\ JsonIdle

NextRun ==
    \/ ConstructMount
    \/ ConstructMountRaises
    \/ to_cf_feedstock_ops_dir
    \/ run_container_operation

SpecRun == InitRun /\ [][NextRun]_vars

\* the mounts of a call: none, the feedstock directory read-write as
\* _parse_package_and_feedstock_names_containerized passes it, the same
\* read-only, and a feedstock directory with a second, read-only one
CallMounts ==
    { <<>>,
      <<Mount(<<"a">>, UnderRoot(<<"a">>), FALSE)>>,
      <<Mount(<<"a">>, UnderRoot(<<"a">>), TRUE)>>,
      <<Mount(<<"a">>, UnderRoot(<<"a">>), FALSE),
        Mount(<<"w">>, UnderRoot(<<"b">>), TRUE)>> }

\* one call of run_container_operation with mounts already constructed
InitCall ==
    /\ mounts = <<>>
    /\ buffer = NoFiles
    /\ host \in {HostRun, NoFiles}
    /\ host_before = host
    /\ tmpdir = NoFiles
    /\ pc = "idle"
    /\ idx = 0
    /\ error = ""
    /\ extra_mounts \in CallMounts
    /\ run_pc = "caller"
    /\ run_error = ""
    /\ stdin_tar = NoFiles
    /\ launched = FALSE
    /\ returncode = 0
    /\ cmd = <<>>
    /\ stdout = NoStdout
    /\ op = NoOp
    /\ ret_str = NotRead
    /\ ret = EmptyObject
    /\ exc = NoException
    /\ result = NotReturned
    /\ environ = Unset
    /\ use_container = "None"
    /\ decision = NotCalled
    /\ OverrideIdle
    /\ TeeIdle
    /\ JsonIdle

NextCall == run_container_operation

SpecCall == InitCall /\ [][NextCall]_vars

\* the characters of an error string: a letter, the separators the branches
\* look for, a blank, and the backslash with a letter that makes an escape
ErrChars == {"K", "(", ")", ":", " ", "\\", "n"}

Strings(chars, n) == UNION {[1..k -> chars] : k \in 0..n}

\* the tracebacks of a record: a plain one, one with "\n" spelled out as
\* traceback.format_exc() never does but a JSON string may, one with the
\* escape "\x" that lacks its digits, and null
Tracebacks == {Str(<<"T">>), Str(<<"T", "\\", "n">>), Str(<<"\\", "x">>), Null}

\* the records json_loads may return: with or without data, error and
\* traceback
Records ==
    LET datas  == {EmptyObject, ("data" :> Null), ("data" :> Str(<<"D">>))}
        errors == {EmptyObject, ("error" :> Null)}
                  \cup {("error" :> Str(e)) : e \in Strings(ErrChars, MaxErrLen)}
        tbs    == {EmptyObject} \cup {("traceback" :> t) : t \in Tracebacks}
    IN  {d @@ e @@ t : d \in datas, e \in errors, t \in tbs}

\* run_container_operation at l.330, the return-info file read and parsed
InitReconstruct ==
    /\ mounts = <<>>
    /\ buffer = NoFiles
    /\ host = NoFiles
    /\ host_before = host
    /\ tmpdir = NoFiles
    /\ pc = "idle"
    /\ idx = 0
    /\ error = ""
    /\ extra_mounts = <<>>
    /\ run_pc = "parsed"
    /\ run_error = ""
    /\ stdin_tar = NoFiles
    /\ launched = TRUE
    /\ returncode = 0
    /\ cmd = Cmd(<<"conda-forge-feedstock-ops-container", "lint">>)
    /\ stdout = [tar |-> TRUE, utf8 |-> TRUE, printed |-> <<>>]
    /\ op = NoOp
    /\ ret_str = [read |-> TRUE, text |-> ""]
    /\ ret \in Records
    /\ exc = NoException
    /\ result = NotReturned
    /\ environ = Unset
    /\ use_container = "None"
    /\ decision = NotCalled
    /\ OverrideIdle
    /\ TeeIdle
    /\ JsonIdle

NextReconstruct ==
    \/ ReturnData
    \/ RaiseRemoteError

SpecReconstruct == InitReconstruct /\ [][NextReconstruct]_vars

\* what a directory to pack may hold: files, a directory, .git entries at
\* the top and nested, and links that lead to a file of the tree, to an
\* absolute path and upwards
SourceEntries ==
    (<<"x">> :> File("1"))
    @@ (<<"sub">> :> Dir)
    @@ (<<"sub", "y">> :> File("2"))
    @@ (<<".git">> :> Dir)
    @@ (<<".git", "c">> :> File("4"))
    @@ (<<"sub", ".git">> :> File("6"))
    @@ (<<"in">> :> Link(<<"x">>))
    @@ (<<"abs">> :> Link(<<"/", "etc">>))
    @@ (<<"up">> :> Link(<<"..", "..", "q">>))

SourcePath == <<"s">>

DestinationPath == <<"d">>

\* the directory trees of at most MaxEntries entries
SourceTrees ==
    { Restrict(SourceEntries, S) :
        S \in { T \in SUBSET DOMAIN SourceEntries :
                  /\ Cardinality(T) <= MaxEntries
                  /\ \A q \in T : ProperPrefixes(q) \subseteq T } }

\* the tree at the source path of a file system
Planted(tree) ==
    (SourcePath :> Dir) @@ (<<"w">> :> Dir)
    @@ [p \in {SourcePath \o r : r \in DOMAIN tree} |-> tree[RelativeTo(p, SourcePath)]]

RoundTripContainerPaths ==
    {UnderRoot(<<"a">>), UnderRoot(<<"c", "e">>), UnderRoot(<<"a", ".git">>)}

\* a tree on the host, the mount that packs it, and the mounts that unpack
\* the stream: the same container path on a destination that does not exist
\* or is an empty directory, alone or after a read-only mount
InitRoundTrip ==
    /\ \E tree \in SourceTrees, fresh \in {NoFiles, (DestinationPath :> Dir)} :
          host = Planted(tree) @@ fresh
    /\ host_before = host
    /\ \E c \in RoundTripContainerPaths :
          /\ VirtualMount_post_init(c) = "ok"
          /\ extra_mounts = <<Mount(SourcePath, c, TRUE)>>
          /\ mounts \in { <<Mount(DestinationPath, c, FALSE)>>,
                          <<Mount(<<"w">>, UnderRoot(<<"b">>), TRUE),
                            Mount(DestinationPath, c, FALSE)>> }
    /\ buffer = NoFiles
    /\ tmpdir = NoFiles
    /\ pc = "pack"
    /\ idx = 0
    /\ error = ""
    /\ run_pc = "caller"
    /\ run_error = ""
    /\ stdin_tar = NoFiles
    /\ launched = FALSE
    /\ returncode = 0
    /\ cmd = <<>>
    /\ stdout = NoStdout
    /\ op = NoOp
    /\ ret_str = NotRead
    /\ ret = EmptyObject
    /\ exc = NoException
    /\ result = NotReturned
    /\ environ = Unset
    /\ use_container = "None"
    /\ decision = NotCalled
    /\ OverrideIdle
    /\ TeeIdle
    /\ JsonIdle

\* virtual_mounts_host._mounts_to_tar: the stream holds the tree as it is now
PackTree ==
    /\ pc = "pack"
    /\ buffer' = mounts_to_tar(host, extra_mounts)
    /\ pc' = "start"
    /\ UNCHANGED <<mounts, host, host_before, tmpdir, idx, error>>

\* the packed directory receives a file after the stream was written
SourceChanges ==
    /\ pc \in {"start", "extracted"}
    /\ Append(SourcePath, "late") \notin DOMAIN host
    /\ host' = Overlay(host, (Append(SourcePath, "late") :> File("7")))
    /\ UNCHANGED <<mounts, buffer, host_before, tmpdir, pc, idx, error>>

NextRoundTrip ==
    (PackTree \/ SourceChanges \/ untar_mounts_from_stream) /\ UNCHANGED runVars

SpecRoundTrip == InitRoundTrip /\ [][NextRoundTrip]_vars

\* str.lower() and str.upper() on the letters of the spellings considered
LowerOf ==
    ("T" :> "t") @@ ("R" :> "r") @@ ("U" :> "u") @@ ("E" :> "e")
    @@ ("F" :> "f") @@ ("A" :> "a") @@ ("L" :> "l") @@ ("S" :> "s")

lower(c) == IF c \in DOMAIN LowerOf THEN LowerOf[c] ELSE c

upper(c) ==
    IF \E u \in DOMAIN LowerOf : LowerOf[u] = c
    THEN CHOOSE u \in DOMAIN LowerOf : LowerOf[u] = c
    ELSE c

str_lower(s) == [i \in DOMAIN s |-> lower(s[i])]

\* the strings pydantic takes for a bool, after lowering the case
BOOL_TRUE ==
    {<<"1">>, <<"o", "n">>, <<"t">>, <<"t", "r", "u", "e">>, <<"y">>,
     <<"y", "e", "s">>}

BOOL_FALSE ==
    {<<"0">>, <<"o", "f", "f">>, <<"f">>, <<"f", "a", "l", "s", "e">>, <<"n">>,
     <<"n", "o">>}

ValidationError == [ok |-> FALSE, value |-> FALSE]

\* FeedstockOpsSettings().in_container: the default False without the
\* variable, else the value read as a bool, or pydantic's ValidationError
in_container(env) ==
    IF ~env.set THEN [ok |-> TRUE, value |-> FALSE]
    ELSE IF str_lower(env.value) \in BOOL_TRUE THEN [ok |-> TRUE, value |-> TRUE]
    ELSE IF str_lower(env.value) \in BOOL_FALSE THEN [ok |-> TRUE, value |-> FALSE]
    ELSE ValidationError

\* the argument returned whenever one is given
should_use_container_as_asked(inside, uc) ==
    IF uc = "None" THEN ~inside ELSE uc = "True"

\* should_use_container after the settings are read; uc is the argument
should_use_container(inside, uc) ==
    LET use == IF uc = "None" THEN ~inside ELSE uc = "True"
    IN  IF use /\ ~inside THEN TRUE ELSE FALSE

\* every spelling of a word in upper and lower case
RECURSIVE Spellings(_)
Spellings(word) ==
    IF word = <<>> THEN {<<>>}
    ELSE {<<c>> \o rest : c \in {word[1], upper(word[1])},
                          rest \in Spellings(Tail(word))}

\* the values of the variable: every spelling of true and false, the other
\* strings read as a bool, and strings that are none
EnvironValues ==
    Spellings(<<"t", "r", "u", "e">>) \cup Spellings(<<"f", "a", "l", "s", "e">>)
    \cup BOOL_TRUE \cup BOOL_FALSE
    \cup {<<>>, <<"2">>, <<"t", "r", "u">>, <<" ", "t", "r", "u", "e">>}

InitEnviron ==
    /\ mounts = <<>>
    /\ buffer = NoFiles
    /\ host = NoFiles
    /\ host_before = host
    /\ tmpdir = NoFiles
    /\ pc = "idle"
    /\ idx = 0
    /\ error = ""
    /\ extra_mounts = <<>>
    /\ run_pc = "caller"
    /\ run_error = ""
    /\ stdin_tar = NoFiles
    /\ launched = FALSE
    /\ returncode = 0
    /\ cmd = <<>>
    /\ stdout = NoStdout
    /\ op = NoOp
    /\ ret_str = NotRead
    /\ ret = EmptyObject
    /\ exc = NoException
    /\ result = NotReturned
    /\ environ = Unset
    /\ use_container = "None"
    /\ decision = NotCalled
    /\ OverrideIdle
    /\ TeeIdle
    /\ JsonIdle

\* os.environ[name] = value, or del os.environ[name], as override_env does
\* around a call
SetEnviron ==
    /\ environ' \in {Unset} \cup {Setting(v) : v \in EnvironValues}
    /\ use_container' = "None"
    /\ decision' = NotCalled
    /\ UNCHANGED <<mounts, buffer, host, host_before, tmpdir, pc, idx, error,
                   extra_mounts, run_pc, run_error, stdin_tar, launched, returncode>>
    /\ UNCHANGED retVars
    /\ UNCHANGED ovVars
    /\ UNCHANGED teeVars
    /\ UNCHANGED jsonVars

\* should_use_container(use_container)
CallShouldUseContainer ==
    /\ ~decision.called
    /\ \E uc \in {"True", "False", "None"} :
          /\ use_container' = uc
          /\ decision' =
                IF in_container(environ).ok
                THEN [called |-> TRUE, raised |-> FALSE,
                      value |-> should_use_container(in_container(environ).value, uc)]
                ELSE [called |-> TRUE, raised |-> TRUE, value |-> FALSE]
    /\ UNCHANGED <<mounts, buffer, host, host_before, tmpdir, pc, idx, error,
                   extra_mounts, run_pc, run_error, stdin_tar, launched, returncode>>
    /\ UNCHANGED retVars
    /\ UNCHANGED environ
    /\ UNCHANGED ovVars
    /\ UNCHANGED teeVars
    /\ UNCHANGED jsonVars

NextEnviron ==
    \/ SetEnviron
    \/ CallShouldUseContainer

SpecEnviron == InitEnviron /\ [][NextEnviron]_vars

----------------------------------------------------------------------------
(* override_env, os_utils.py *)

\* the environment variables considered and the strings they may hold
EnvNames == {"CONDA_SUBDIR", "CF_FEEDSTOCK_OPS_IN_CONTAINER"}

EnvStrings == {"linux-64", "true"}

\* Python's None where the value of a variable is expected
NoValue == "None"

\* os.environ.get(name)
environ_get(env, name) == IF name \in DOMAIN env THEN env[name] ELSE NoValue

\* os.environ[name] = value
environ_set(env, name, value) ==
    [n \in DOMAIN env \cup {name} |-> IF n = name THEN value ELSE env[n]]

\* del os.environ[name]: KeyError when the name is not set
environ_del(env, name) ==
    IF name \in DOMAIN env
    THEN [ok |-> TRUE, env |-> [n \in DOMAIN env \ {name} |-> env[n]]]
    ELSE [ok |-> FALSE, env |-> env]

\* the try clause of override_env up to the yield
override(env, name, value) ==
    IF value = NoValue
    THEN environ_del(env, name)
    ELSE [ok |-> TRUE, env |-> environ_set(env, name, value)]

\* the finally clause of override_env
restore(env, name, old) ==
    IF old = NoValue
    THEN environ_del(env, name)
    ELSE [ok |-> TRUE, env |-> environ_set(env, name, old)]

\* with override_env(name, value): old is read, the try clause runs; when it
\* raises, the finally clause runs at once and the block is not entered
EnterOverride ==
    /\ override_exc = ""
    /\ Len(frames) < MaxDepth
    /\ \E name \in EnvNames, value \in EnvStrings \cup {NoValue} :
          LET old     == environ_get(os_environ, name)
              entered == override(os_environ, name, value)
              left    == restore(entered.env, name, old)
          IN  IF entered.ok
              THEN /\ os_environ' = entered.env
                   /\ frames' = Append(frames, [name |-> name, value |-> value,
                                                old |-> old, before |-> os_environ])
                   /\ UNCHANGED override_exc
              ELSE /\ os_environ' = left.env
                   /\ override_exc' = "KeyError"
                   /\ UNCHANGED frames
    /\ UNCHANGED callVars
    /\ UNCHANGED jsonVars
    /\ UNCHANGED teeVars

\* the innermost block ends: the generator resumes after the yield and the
\* finally clause runs
ExitOverride ==
    /\ override_exc = ""
    /\ frames # <<>>
    /\ LET f    == frames[Len(frames)]
           left == restore(os_environ, f.name, f.old)
       IN  /\ os_environ' = left.env
           /\ frames' = SubSeq(frames, 1, Len(frames) - 1)
           /\ override_exc' = IF left.ok THEN "" ELSE "KeyError"
    /\ UNCHANGED callVars
    /\ UNCHANGED jsonVars
    /\ UNCHANGED teeVars

\* the body of the innermost block raises
BodyRaises ==
    /\ override_exc = ""
    /\ frames # <<>>
    /\ override_exc' = "Exception"
    /\ UNCHANGED <<os_environ, frames>>
    /\ UNCHANGED callVars
    /\ UNCHANGED jsonVars
    /\ UNCHANGED teeVars

\* the exception leaves the innermost block: it is thrown into the generator
\* at the yield and the finally clause runs
UnwindOverride ==
    /\ override_exc # ""
    /\ frames # <<>>
    /\ LET f    == frames[Len(frames)]
           left == restore(os_environ, f.name, f.old)
       IN  /\ os_environ' = left.env
           /\ frames' = SubSeq(frames, 1, Len(frames) - 1)
           /\ override_exc' = IF left.ok THEN override_exc ELSE "KeyError"
    /\ UNCHANGED callVars
    /\ UNCHANGED jsonVars
    /\ UNCHANGED teeVars

\* every environment over the names considered
Environs == UNION {[S -> EnvStrings] : S \in SUBSET EnvNames}

InitOverride ==
    /\ CallIdle
    /\ os_environ \in Environs
    /\ frames = <<>>
    /\ override_exc = ""
    /\ JsonIdle
    /\ TeeIdle

NextOverride ==
    \/ EnterOverride
    \/ ExitOverride
    \/ BodyRaises
    \/ UnwindOverride

SpecOverride == InitOverride /\ [][NextOverride]_vars

----------------------------------------------------------------------------
(* JSON with sets, json.py *)

\* the order sorted() puts the scalars in: integers by value, strings by
\* their characters
Rank == ("1" :> 1) @@ ("2" :> 2) @@ ("a" :> 3)

\* sorted() compares the elements pairwise: integers with integers and strings
\* with strings; anything else is a TypeError, unless there is nothing to compare
Sortable(S) ==
    \/ Cardinality(S) <= 1
    \/ \E t \in {"int", "str"} : \A e \in S : e.type = t

\* sorted(obj) for a set that can be sorted
sorted(S) ==
    CHOOSE q \in [1..Cardinality(S) -> S] :
       \A i \in DOMAIN q : \A j \in DOMAIN q :
          i < j => Rank[q[i].scalar] < Rank[q[j].scalar]

Encoded(doc) == [ok |-> TRUE, doc |-> doc]

\* orjson.JSONEncodeError, a TypeError
JSONEncodeError == [ok |-> FALSE, doc |-> NoDoc]

\* default(obj), called by the encoder for a set
default(x) ==
    IF Sortable(x.set)
    THEN [ok |-> TRUE,
          value |-> PyDict(("__set__" :> PyTrue)
                           @@ ("elements" :> PyList(sorted(x.set))))]
    ELSE [ok |-> FALSE, value |-> PyNone]

\* orjson.dumps(obj, default=default): the document, which the options only
\* lay out; what default returns is encoded in turn, an exception in default
\* is a JSONEncodeError
RECURSIVE dumps(_)
dumps(x) ==
    CASE x.type = "NoneType" -> Encoded(JNull)
      [] x.type = "bool" -> Encoded(JTrue)
      [] x.type = "int" -> Encoded(JNumber(x.scalar))
      [] x.type = "str" -> Encoded(JString(x.scalar))
      [] x.type = "list" ->
            LET parts == [i \in DOMAIN x.list |-> dumps(x.list[i])]
            IN  IF \A i \in DOMAIN parts : parts[i].ok
                THEN Encoded(JArray([i \in DOMAIN parts |-> parts[i].doc]))
                ELSE JSONEncodeError
      [] x.type = "dict" ->
            LET parts == [k \in DOMAIN x.dict |-> dumps(x.dict[k])]
            IN  IF \A k \in DOMAIN parts : parts[k].ok
                THEN Encoded(JObject([k \in DOMAIN parts |-> parts[k].doc]))
                ELSE JSONEncodeError
      [] x.type = "set" ->
            IF default(x).ok THEN dumps(default(x).value) ELSE JSONEncodeError

\* orjson.loads(s) of a document dumps wrote
RECURSIVE orjson_loads(_)
orjson_loads(d) ==
    CASE d.type = "null" -> PyNone
      [] d.type = "true" -> PyTrue
      [] d.type = "number" -> PyInt(d.scalar)
      [] d.type = "string" -> PyStr(d.scalar)
      [] d.type = "array" -> PyList([i \in DOMAIN d.list |-> orjson_loads(d.list[i])])
      [] d.type = "object" -> PyDict([k \in DOMAIN d.dict |-> orjson_loads(d.dict[k])])

Hooked(v) == [ok |-> TRUE, value |-> v, error |-> ""]

HookRaises(e) == [ok |-> FALSE, value |-> PyNone, error |-> e]

\* set(v): the elements of a list when all can be hashed, the characters of a
\* string, the keys of a dict, the elements of a set; nothing else iterates
set_of(v) ==
    CASE v.type = "list" ->
            IF \A i \in DOMAIN v.list : v.list[i].type \notin {"list", "dict", "set"}
            THEN Hooked(PySet({v.list[i] : i \in DOMAIN v.list}))
            ELSE HookRaises("TypeError")
      [] v.type = "str" ->
            Hooked(PySet(IF v.scalar = "" THEN {} ELSE {PyStr(v.scalar)}))
      [] v.type = "dict" -> Hooked(PySet({PyStr(k) : k \in DOMAIN v.dict}))
      [] v.type = "set" -> Hooked(v)
      [] OTHER -> HookRaises("TypeError")

\* object_hook(dct)
object_hook(dct) ==
    IF "__set__" \in DOMAIN dct.dict
    THEN IF "elements" \in DOMAIN dct.dict
         THEN set_of(dct.dict["elements"])
         ELSE HookRaises("KeyError")
    ELSE Hooked(dct)

\* _call_object_hook(data, object_hook): the items of a list, and the values
\* of a dict before the dict itself
RECURSIVE call_object_hook(_)
call_object_hook(data) ==
    CASE data.type = "list" ->
            LET parts == [i \in DOMAIN data.list |-> call_object_hook(data.list[i])]
            IN  IF \A i \in DOMAIN parts : parts[i].ok
                THEN Hooked(PyList([i \in DOMAIN parts |-> parts[i].value]))
                ELSE parts[CHOOSE i \in DOMAIN parts :
                              ~parts[i].ok /\ \A j \in 1..(i - 1) : parts[j].ok]
      [] data.type = "dict" ->
            LET parts == [k \in DOMAIN data.dict |-> call_object_hook(data.dict[k])]
            IN  IF \A k \in DOMAIN parts : parts[k].ok
                THEN object_hook(PyDict([k \in DOMAIN parts |-> parts[k].value]))
                ELSE parts[CHOOSE k \in DOMAIN parts : ~parts[k].ok]
      [] OTHER -> Hooked(data)

\* loads(s)
loads(d) == call_object_hook(orjson_loads(d))

\* the values of a round trip: scalars, sets of scalars, lists and dicts of
\* these, the keys of the set encoding among the keys, and two deeper values
Scalars == {PyNone, PyTrue, PyInt("1"), PyInt("2"), PyStr("a")}

Hashables == {PyNone, PyInt("1"), PyInt("2"), PyStr("a")}

Sets == {PySet(S) : S \in {T \in SUBSET Hashables : Cardinality(T) <= MaxItems}}

Lists ==
    {PyList(q) : q \in UNION {[1..n -> Scalars \cup Sets] : n \in 0..MaxItems}}

DictKeys == {"c", "__set__", "elements"}

DictValues == Scalars \cup Sets \cup {PyList(<<PySet({PyInt("1")})>>)}

Dicts ==
    {PyDict(d) : d \in UNION {[K -> DictValues] :
                                K \in {L \in SUBSET DictKeys : Cardinality(L) <= MaxItems}}}

Nested ==
    {PyList(<<PyDict("c" :> PyList(<<PySet({PyInt("1"), PyInt("2")})>>))>>),
     PyDict("c" :> PyDict("c" :> PySet({PyStr("a")})))}

Values == Scalars \cup Sets \cup Lists \cup Dicts \cup Nested

\* s = dumps(obj)
Dumps ==
    /\ json_pc = "start"
    /\ IF dumps(obj).ok
       THEN /\ dumped' = dumps(obj).doc
            /\ json_pc' = "dumped"
            /\ UNCHANGED json_error
       ELSE /\ json_error' = "TypeError"
            /\ json_pc' = "raised"
            /\ UNCHANGED dumped
    /\ UNCHANGED <<obj, fp, loaded>>
    /\ UNCHANGED callVars
    /\ UNCHANGED ovVars
    /\ UNCHANGED teeVars

\* dump(obj, fp): fp.write(dumps(obj))
Dump ==
    /\ json_pc = "start"
    /\ IF dumps(obj).ok
       THEN /\ fp' = dumps(obj).doc
            /\ json_pc' = "written"
            /\ UNCHANGED json_error
       ELSE /\ json_error' = "TypeError"
            /\ json_pc' = "raised"
            /\ UNCHANGED fp
    /\ UNCHANGED <<obj, dumped, loaded>>
    /\ UNCHANGED callVars
    /\ UNCHANGED ovVars
    /\ UNCHANGED teeVars

\* loads(s)
Loads ==
    /\ json_pc = "dumped"
    /\ IF loads(dumped).ok
       THEN /\ loaded' = loads(dumped).value
            /\ json_pc' = "loaded"
            /\ UNCHANGED json_error
       ELSE /\ json_error' = loads(dumped).error
            /\ json_pc' = "raised"
            /\ UNCHANGED loaded
    /\ UNCHANGED <<obj, dumped, fp>>
    /\ UNCHANGED callVars
    /\ UNCHANGED ovVars
    /\ UNCHANGED teeVars

\* load(fp): loads(fp.read())
Load ==
    /\ json_pc = "written"
    /\ IF loads(fp).ok
       THEN /\ loaded' = loads(fp).value
            /\ json_pc' = "loaded"
            /\ UNCHANGED json_error
       ELSE /\ json_error' = loads(fp).error
            /\ json_pc' = "raised"
            /\ UNCHANGED loaded
    /\ UNCHANGED <<obj, dumped, fp>>
    /\ UNCHANGED callVars
    /\ UNCHANGED ovVars
    /\ UNCHANGED teeVars

InitJson ==
    /\ CallIdle
    /\ OverrideIdle
    /\ TeeIdle
    /\ obj \in Values
    /\ json_pc = "start"
    /\ dumped = NoDoc
    /\ fp = NoDoc
    /\ loaded = PyNone
    /\ json_error = ""

NextJson ==
    \/ Dumps
    \/ Dump
    \/ Loads
    \/ Load

SpecJson == InitJson /\ [][NextJson]_vars

----------------------------------------------------------------------------
(* _subprocess_run_tee and rerender_local, rerender.py *)

Threads == {1, 2}

\* what _subprocess_run_tee leaves alone
otherVars == <<callVars, ovVars, jsonVars>>

\* SIGKILL as an exit status
Killed == -9

\* subprocess.Popen(...), os.set_blocking(..., False) on both pipes, and
\* out_thread.start() for both threads
TeeStart ==
    /\ main_pc = "caller"
    /\ child' = [state |-> "running", status |-> 0, wrote |-> 0]
    /\ thread_pc' = <<"stop?", "stop?">>
    /\ main_pc' = "wait"
    /\ UNCHANGED <<pipes, stop_event, lines, expired, wait_result, proc_returncode>>
    /\ UNCHANGED otherVars

\* proc.wait(timeout=timeout): it returns once the child has exited, and
\* raises subprocess.TimeoutExpired once the time is over and the child has not
TeeWait ==
    /\ main_pc = "wait"
    /\ \/ /\ child.state = "exited"
          /\ proc_returncode' = Reaped(child.status)
          /\ wait_result' = "exited"
          /\ main_pc' = "finally"
       \/ /\ child.state = "running"
          /\ expired
          /\ wait_result' = "TimeoutExpired"
          /\ main_pc' = "kill"
          /\ UNCHANGED proc_returncode
    /\ UNCHANGED <<child, pipes, stop_event, thread_pc, lines, expired>>
    /\ UNCHANGED otherVars

\* except subprocess.TimeoutExpired: proc.kill(). send_signal polls first and
\* sends nothing to a child that has exited meanwhile
TeeKill ==
    /\ main_pc = "kill"
    /\ IF child.state = "exited"
       THEN /\ proc_returncode' = Reaped(child.status)
            /\ UNCHANGED child
       ELSE /\ child' = [child EXCEPT !.state = "exited", !.status = Killed]
            /\ UNCHANGED proc_returncode
    /\ main_pc' = "finally"
    /\ UNCHANGED <<pipes, stop_event, thread_pc, lines, expired, wait_result>>
    /\ UNCHANGED otherVars

\* finally: stop_event.set()
TeeSetStop ==
    /\ main_pc = "finally"
    /\ stop_event' = TRUE
    /\ main_pc' = "join 1"
    /\ UNCHANGED <<child, pipes, thread_pc, lines, expired, wait_result,
                   proc_returncode>>
    /\ UNCHANGED otherVars

\* out_thread.join(): returns when the thread has ended
TeeJoin ==
    /\ \E i \in Threads :
          /\ main_pc = IF i = 1 THEN "join 1" ELSE "join 2"
          /\ thread_pc[i] = "done"
          /\ main_pc' = IF i = 1 THEN "join 2" ELSE "communicate"
    /\ UNCHANGED <<child, pipes, stop_event, thread_pc, lines, expired,
                   wait_result, proc_returncode>>
    /\ UNCHANGED otherVars

\* out, err = proc.communicate(timeout=30): it reads what is left in the
\* pipes and reaps the child, or raises (the pipes are still held open by a
\* process the child started, so that no end of file comes within 30 seconds)
\* and except Exception sets out, err = "", ""
TeeCommunicate ==
    /\ main_pc = "communicate"
    /\ \/ /\ pipes' = <<0, 0>>
          /\ proc_returncode' = Reaped(child.status)
       \/ UNCHANGED <<pipes, proc_returncode>>
    /\ main_pc' = "return"
    /\ UNCHANGED <<child, stop_event, thread_pc, lines, expired, wait_result>>
    /\ UNCHANGED otherVars

\* rerender_local accepting a return code of None
RerenderLocalReturnCode_none_accepted ==
    /\ main_pc = "return"
    /\ main_pc' = IF proc_returncode.known /\ proc_returncode.code # 0
                  THEN "raised RuntimeError"
                  ELSE "returned"
    /\ UNCHANGED <<child, pipes, stop_event, thread_pc, lines, expired,
                   wait_result, proc_returncode>>
    /\ UNCHANGED otherVars

\* return proc, and in rerender_local: if ret.returncode != 0: raise
\* RuntimeError; None is not 0
RerenderLocalReturnCode ==
    /\ main_pc = "return"
    /\ main_pc' = IF proc_returncode.known /\ proc_returncode.code = 0
                  THEN "returned"
                  ELSE "raised RuntimeError"
    /\ UNCHANGED <<child, pipes, stop_event, thread_pc, lines, expired,
                   wait_result, proc_returncode>>
    /\ UNCHANGED otherVars

\* the child writes a line to its standard output or its standard error
ChildWrites ==
    /\ child.state = "running"
    /\ child.wrote < MaxLines
    /\ \E i \in Threads : pipes' = [pipes EXCEPT ![i] = @ + 1]
    /\ child' = [child EXCEPT !.wrote = @ + 1]
    /\ UNCHANGED <<stop_event, thread_pc, lines, expired, main_pc, wait_result,
                   proc_returncode>>
    /\ UNCHANGED otherVars

\* the child ends by itself
ChildExits ==
    /\ child.state = "running"
    /\ \E status \in {0, 1} :
          child' = [child EXCEPT !.state = "exited", !.status = status]
    /\ UNCHANGED <<pipes, stop_event, thread_pc, lines, expired, main_pc,
                   wait_result, proc_returncode>>
    /\ UNCHANGED otherVars

\* time.time() - t0 passes the timeout
TimeoutExpires ==
    /\ main_pc # "caller"
    /\ ~expired
    /\ expired' = TRUE
    /\ UNCHANGED <<child, pipes, stop_event, thread_pc, lines, main_pc,
                   wait_result, proc_returncode>>
    /\ UNCHANGED otherVars

\* _StreamToStderr.run, one step of thread i: if self.stop_event.is_set():
\* break; if ... time.time() - t0 > self.timeout: break; line =
\* self.buffer.readline(), which does not block and gives "" when the pipe is
\* empty; if line: self.lines.append(line)
StreamToStderr_run(i) ==
    /\ \/ /\ thread_pc[i] = "stop?"
          /\ thread_pc' = [thread_pc EXCEPT ![i] =
                              IF stop_event THEN "done" ELSE "timeout?"]
          /\ UNCHANGED <<pipes, lines>>
       \/ /\ thread_pc[i] = "timeout?"
          /\ thread_pc' = [thread_pc EXCEPT ![i] =
                              IF expired THEN "done" ELSE "readline"]
          /\ UNCHANGED <<pipes, lines>>
       \/ /\ thread_pc[i] = "readline"
          /\ thread_pc' = [thread_pc EXCEPT ![i] = "stop?"]
          /\ IF pipes[i] > 0
             THEN /\ pipes' = [pipes EXCEPT ![i] = @ - 1]
                  /\ lines' = [lines EXCEPT ![i] = @ + 1]
             ELSE UNCHANGED <<pipes, lines>>
    /\ UNCHANGED <<child, stop_event, expired, main_pc, wait_result,
                   proc_returncode>>
    /\ UNCHANGED otherVars

StdoutThread == StreamToStderr_run(1)

StderrThread == StreamToStderr_run(2)

\* the main thread of _subprocess_run_tee and rerender_local
MainThread ==
    \/ TeeStart
    \/ TeeWait
    \/ TeeKill
    \/ TeeSetStop
    \/ TeeJoin
    \/ TeeCommunicate
    \/ RerenderLocalReturnCode

InitTee ==
    /\ CallIdle
    /\ OverrideIdle
    /\ JsonIdle
    /\ TeeIdle

NextTee ==
    \/ MainThread
    \/ StdoutThread
    \/ StderrThread
    \/ ChildWrites
    \/ ChildExits
    \/ TimeoutExpires

SpecTee == InitTee /\ [][NextTee]_vars

\* every thread that can run does run, and time passes; nothing is assumed
\* of the child
SpecTeeFair ==
    /\ SpecTee
    /\ WF_vars(MainThread)
    /\ WF_vars(StdoutThread)
    /\ WF_vars(StderrThread)
    /\ WF_vars(TimeoutExpires)

----------------------------------------------------------------------------
(* Vocabulary of the properties *)

\* identical, or one a path-prefix of the other
paths_overlap(p, q) == IsPrefix(p, q) \/ IsPrefix(q, p)

\* the invariant of a mount set: no two host paths and no two container
\* paths overlap
OverlapFree(ms) ==
    \A i, j \in DOMAIN ms :
        i # j => /\ ~paths_overlap(ms[i].host_path, ms[j].host_path)
                 /\ ~paths_overlap(ms[i].container_path.parts,
                                   ms[j].container_path.parts)

HasIgnoredComponent(p) == IGNORE_PATHS \cap Range(p) # {}

\* the host path a member of the archive belongs to under mount m
HostPathOf(m, n) == m.host_path \o RelativeTo(n, relative_container_path(m))

\* following the target t from the directory of the member n never climbs
\* above the scratch directory and ends strictly below it
LinkStaysInScratch(n, t) ==
    LET ups(k)   == Cardinality({i \in 1..k : t[i] = ".."})
        downs(k) == Cardinality({i \in 1..k : t[i] # ".."})
    IN  /\ t # <<>>
        /\ t[1] # "/"
        /\ \A k \in 1..Len(t) : ups(k) <= (Len(n) - 1) + downs(k)
        /\ ups(Len(t)) < (Len(n) - 1) + downs(Len(t))

LinkMembers == {n \in DOMAIN buffer : buffer[n].kind = "link"}

----------------------------------------------------------------------------
(* Properties of the hardened unpacker *)

C3_IgnoredMembersNeverLand ==
    OverlapFree(mounts) =>
       \A i \in DOMAIN mounts : \A n \in DOMAIN buffer :
          ( /\ ~mounts[i].read_only
            /\ IsPrefix(relative_container_path(mounts[i]), n)
            /\ HasIgnoredComponent(n)
            /\ HostPathOf(mounts[i], n) \in DOMAIN host )
          => /\ HostPathOf(mounts[i], n) \in DOMAIN host_before
             /\ host[HostPathOf(mounts[i], n)] = host_before[HostPathOf(mounts[i], n)]

\* C4: under the host path of a read-write mount, whatever has an ignored
\* component in its relative path, at any depth, exists unchanged whatever
\* the archive holds.
C4_IgnoredHostPathsIntact ==
    OverlapFree(mounts) =>
       \A i \in DOMAIN mounts : \A p \in DOMAIN host_before :
          ( /\ ~mounts[i].read_only
            /\ StrictPrefix(mounts[i].host_path, p)
            /\ HasIgnoredComponent(RelativeTo(p, mounts[i].host_path)) )
          => /\ p \in DOMAIN host
             /\ host[p] = host_before[p]

\* the archive's entry at the mount's relative container path is one file
SingleFileEntry(m) ==
    /\ relative_container_path(m) \in DOMAIN buffer
    /\ buffer[relative_container_path(m)].kind = "file"

\* a path of the archive's subtree: a member, or a directory leading to a
\* member that is not ignored
InArchive(n) ==
    \/ n \in DOMAIN buffer
    \/ \E k \in DOMAIN buffer : StrictPrefix(n, k) /\ ~HasIgnoredComponent(k)

\* C5: when the unpack has returned, the host path of a read-write directory
\* mount is synchronized with the archive: what was there before, is not
\* under an ignored path and is not in the archive's subtree is gone, and
\* every file of the subtree that is not ignored is there with the archive's
\* contents.
C5_FullySynchronized ==
    (pc = "done" /\ OverlapFree(mounts)) =>
       \A i \in DOMAIN mounts :
          (~mounts[i].read_only /\ ~SingleFileEntry(mounts[i])) =>
             /\ \A p \in DOMAIN host_before :
                   ( /\ StrictPrefix(mounts[i].host_path, p)
                     /\ ~HasIgnoredComponent(RelativeTo(p, mounts[i].host_path))
                     /\ ~InArchive(relative_container_path(mounts[i])
                                     \o RelativeTo(p, mounts[i].host_path)) )
                   => p \notin DOMAIN host
             /\ \A n \in DOMAIN buffer :
                   ( /\ StrictPrefix(relative_container_path(mounts[i]), n)
                     /\ buffer[n].kind = "file"
                     /\ ~HasIgnoredComponent(n) )
                   => /\ HostPathOf(mounts[i], n) \in DOMAIN host
                      /\ host[HostPathOf(mounts[i], n)] = buffer[n]

\* host a {x: 1, old: 0, ...} with archive a/x = 1, a/z = 3: old is gone,
\* x and z are there
C5_Witness ==
    /\ pc = "done"
    /\ mounts = <<Mount(<<"a">>, UnderRoot(<<"a">>), FALSE)>>
    /\ <<"a", "old">> \in DOMAIN host_before
    /\ <<"a", "old">> \notin DOMAIN host
    /\ <<"a", "x">> \in DOMAIN buffer
    /\ <<"a", "z">> \in DOMAIN buffer
    /\ host[<<"a", "x">>] = File("1")
    /\ host[<<"a", "z">>] = File("3")

\* C6: until the archive is extracted and its links are validated no host
\* path is touched, and a timeout or a failure of the extraction is raised
\* with every host path as it was.
C6_NoClearingBeforeExtraction ==
    /\ pc \in {"start", "extracted"} => host = host_before
    /\ (pc = "raised" /\ error \in {"ProcessTimedOut", "ProcessExecutionError"})
          => host = host_before
    /\ host # host_before => pc \in {"mounts", "done", "raised"}

\* the extraction timed out over a read-write mount whose host path has files
C6_Witness ==
    /\ pc = "raised"
    /\ error = "ProcessTimedOut"
    /\ \E i \in DOMAIN mounts :
          /\ ~mounts[i].read_only
          /\ \E p \in DOMAIN host : StrictPrefix(mounts[i].host_path, p)

\* C11: when the archive's entry for a read-write mount is one regular file
\* and the mount's host path was a directory, the host path itself is, after
\* the unpack, a regular file with the contents of the entry.
C11_FileReplacesDirectory ==
    (pc = "done" /\ OverlapFree(mounts)) =>
       \A i \in DOMAIN mounts :
          ( /\ ~mounts[i].read_only
            /\ SingleFileEntry(mounts[i])
            /\ mounts[i].host_path \in DOMAIN host_before
            /\ host_before[mounts[i].host_path].kind = "dir" )
          => host[mounts[i].host_path]
                = buffer[relative_container_path(mounts[i])]

\* C12: a link of the archive whose target is an ignored name (".git") is,
\* after the unpack, not a link on the host path of its read-write mount.
C12_NoLinkToIgnoredName ==
    pc = "done" =>
       \A i \in DOMAIN mounts : \A n \in LinkMembers :
          ( /\ ~mounts[i].read_only
            /\ StrictPrefix(relative_container_path(mounts[i]), n)
            /\ buffer[n].target # <<>>
            /\ buffer[n].target[Len(buffer[n].target)] \in IGNORE_PATHS )
          => ~( /\ HostPathOf(mounts[i], n) \in DOMAIN host
                /\ host[HostPathOf(mounts[i], n)].kind = "link" )

\* the errors of the extraction itself
ExtractionErrors == {"ProcessTimedOut", "ProcessExecutionError"}

\* C13: an archive without an entry at the relative container path of a
\* read-write mount is nothing to restore: the unpack does not raise over
\* that mount and goes on to the mounts after it.
C13_AbsentEntryIsNoError ==
    (pc = "raised" /\ error \notin ExtractionErrors) =>
       InArchive(relative_container_path(mounts[idx]))

----------------------------------------------------------------------------
(* Properties of the operation invoker *)

HostPathsOverlap(ms) ==
    \E i, j \in DOMAIN ms :
        i # j /\ paths_overlap(ms[i].host_path, ms[j].host_path)

ContainerPathsOverlap(ms) ==
    \E i, j \in DOMAIN ms :
        i # j /\ paths_overlap(ms[i].container_path.parts, ms[j].container_path.parts)

RunEntered == run_pc \notin {"idle", "caller", "constructor raised"}

\* every container path lies strictly below the operations root
BelowRoot(ms) ==
    \A i \in DOMAIN ms :
        StrictPrefix(CF_FEEDSTOCK_OPS_DIR.parts, ms[i].container_path.parts)

\* C1: the inbound unpack leaves the host path of every read-only mount as
\* it was, whatever the archive holds at its container path; stated over
\* the mount sets without overlap, the charitable reading of "every mount
\* set".
C1_ReadOnlyHostPathsUnchanged ==
    OverlapFree(mounts) =>
       \A i \in DOMAIN mounts :
          mounts[i].read_only =>
             TreeAt(host, mounts[i].host_path)
                = TreeAt(host_before, mounts[i].host_path)

\* C7: run_container_operation goes on exactly when no two host paths and no
\* two container paths of the combined mount set overlap; otherwise it
\* raises a ValueError that names a kind of overlap that is present. Stated
\* over the mounts strictly below the root, so that it does not rest on C10.
C7_OverlapRejected ==
    (RunEntered /\ BelowRoot(mounts)) =>
       /\ HostPathsOverlap(mounts) \/ ContainerPathsOverlap(mounts) =>
             /\ run_pc = "raised"
             /\ \/ /\ HostPathsOverlap(mounts)
                   /\ run_error = "ValueError: host paths may not overlap"
                \/ /\ ContainerPathsOverlap(mounts)
                   /\ run_error = "ValueError: container paths may not overlap"
       /\ ~(HostPathsOverlap(mounts) \/ ContainerPathsOverlap(mounts)) =>
             run_error \notin {"ValueError: host paths may not overlap",
                               "ValueError: container paths may not overlap"}

\* C8: a caller's mount whose container path is the return-info path or
\* lies beneath it makes run_container_operation raise the ValueError
\* "container paths may not overlap".
C8_ReturnInfoPathReserved ==
    ( /\ RunEntered
      /\ \E i \in DOMAIN extra_mounts :
            IsPrefix(Child(CF_FEEDSTOCK_OPS_DIR, RETURN_INFO_FILE_NAME).parts,
                     extra_mounts[i].container_path.parts) )
    => /\ run_pc = "raised"
       /\ run_error = "ValueError: container paths may not overlap"

\* C9: with an invalid mount set nothing is packed, no container process is
\* launched and no host path is modified. Stated over the mounts strictly
\* below the root, so that it does not rest on C10.
C9_ValidationComesFirst ==
    (RunEntered /\ BelowRoot(mounts) /\ ~OverlapFree(mounts)) =>
       /\ ~launched
       /\ stdin_tar = NoFiles
       /\ WithoutRunTmpDir(host) = host_before

\* C10: every mount that exists has an absolute container path strictly
\* below the operations root, hence a relative container path that is not
\* empty.
C10_MountsStrictlyBelowRoot ==
    \A i \in DOMAIN extra_mounts :
       /\ extra_mounts[i].container_path.absolute
       /\ StrictPrefix(CF_FEEDSTOCK_OPS_DIR.parts, extra_mounts[i].container_path.parts)
       /\ relative_container_path(extra_mounts[i]) # <<>>

\* the process has exited and run_container_operation has acted on it
AfterExit == launched /\ run_pc \notin {"launching", "exited"}

\* the captured output as it is: the bytes, of whatever encoding
CapturedOutput ==
    [decoded |-> TRUE, tar |-> stdout.tar, members |-> buffer,
     printed |-> stdout.printed]

UnpackEnded == launched /\ run_pc \in {"raised", "unpacked", "parsed", "returned"}

\* the output cannot be unpacked: it is no tar stream, or a member selected
\* for a read-write mount is one the extraction refuses
MalformedArchive ==
    \/ ~stdout.tar
    \/ \E i \in DOMAIN mounts :
          /\ ~mounts[i].read_only
          /\ \E n \in members_of(buffer, relative_container_path(mounts[i])) :
                refused_by_filter(buffer, n)

ExtractionFailed == run_error = "ContainerRuntimeError: extracting virtual mounts"

HasShapeKindMessage(e) ==
    /\ Len(e) >= 3
    /\ e[Len(e)] = ")"
    /\ \E i \in 2..(Len(e) - 1) : e[i] = "("

FirstParen(e) == CHOOSE i \in DOMAIN e : e[i] = "(" /\ \A j \in 1..(i - 1) : e[j] # "("

KindOf(e) == SubSeq(e, 1, FirstParen(e) - 1)

MessageOf(e) == SubSeq(e, FirstParen(e) + 1, Len(e) - 1)

\* a Kind is a name: letters only, and at least one
IsName(k) == k # <<>> /\ \A i \in DOMAIN k : k[i] \in {"K", "n"}

ReconstructionEnded == run_pc \in {"returned", "raised"}

\* C16: a record with no error key (and a data field) makes
\* run_container_operation return exactly the data field; a record whose
\* error is a string of shape Kind(message), Kind a name, and whose traceback
\* is a string free of escapes makes it raise a ContainerRuntimeError whose
\* kind is Kind and whose message is message.
C16_ResultReconstruction ==
    ReconstructionEnded =>
       /\ ("error" \notin DOMAIN ret /\ "data" \in DOMAIN ret) =>
             /\ run_pc = "returned"
             /\ result = [returned |-> TRUE, value |-> ret["data"]]
       /\ ( /\ "error" \in DOMAIN ret
            /\ ret["error"].type = "str"
            /\ HasShapeKindMessage(ret["error"].chars)
            /\ IsName(KindOf(ret["error"].chars))
            /\ "traceback" \in DOMAIN ret
            /\ ret["traceback"] = Str(<<"T">>) )
          => /\ run_pc = "raised"
             /\ exc.type = "ContainerRuntimeError"
             /\ exc.error.ename = KindOf(ret["error"].chars)
             /\ exc.error.body = MessageOf(ret["error"].chars)

\* the process was the task runner of __main__.py and the host call is over
TaskRunnerCallEnded == op.kind # "none" /\ run_pc \in {"raised", "returned"}

\* C17: the task runner's standard output is one tar stream that holds the
\* populated return-info file, so that an operation that returns D makes
\* run_container_operation return D, and one that raises makes it raise the
\* reconstructed error of the remote operation, not a transport failure.
C17_WireFormatAgreement ==
    (TaskRunnerCallEnded /\ op.kind \in {"returns", "raises Exception"}) =>
       /\ stdout.tar
       /\ <<RETURN_INFO_FILE_NAME>> \in DOMAIN buffer
       /\ op.kind = "returns" =>
             /\ run_pc = "returned"
             /\ result = [returned |-> TRUE, value |-> op.value]
       /\ op.kind = "raises Exception" =>
             /\ run_pc = "raised"
             /\ run_error = "ContainerRuntimeError: error raised"

\* C18: whether the operation returns or raises, the task runner produces
\* exactly one return-info record; it holds the keyword parameters of the
\* request and a data field (the result, or null), with error and traceback
\* when the operation raised and no error key when it returned.
C18_OneRecordPerInvocation ==
    op.kind # "none" =>
       /\ Len(stdout.printed) = 1
       /\ LET record == stdout.printed[1]
          IN  /\ \A k \in DOMAIN op.kwargs :
                    k \in DOMAIN record /\ record[k] = op.kwargs[k]
              /\ "data" \in DOMAIN record
              /\ op.kind = "returns" =>
                    /\ record["data"] = op.value
                    /\ "error" \notin DOMAIN record
              /\ op.kind # "returns" =>
                    /\ record["data"] = Null
                    /\ "error" \in DOMAIN record
                    /\ "traceback" \in DOMAIN record

\* the tree that was packed, and the destination of the round trip
PackedTree == TreeAt(host_before, extra_mounts[1].host_path)

RoundTripMount == mounts[Len(mounts)]

Restored == TreeAt(host, RoundTripMount.host_path)

\* the entries below the top of a tree
EntriesOf(tree) == DOMAIN tree \ {<<>>}

\* a round trip that returned, of a directory packed below a container path
\* without an ignored name
RoundTripDone ==
    /\ pc = "done"
    /\ Len(extra_mounts) = 1
    /\ RoundTripMount.container_path = extra_mounts[1].container_path
    /\ ~HasIgnoredComponent(relative_container_path(RoundTripMount))

\* a link of the packed tree that the unpacker drops: its target does not
\* resolve to a place inside the scratch directory
DroppedLink(r) ==
    /\ PackedTree[r].kind = "link"
    /\ ~LinkStaysInScratch(relative_container_path(RoundTripMount) \o r,
                           PackedTree[r].target)

SpellsFalse ==
    /\ environ.set
    /\ Len(environ.value) = 5
    /\ environ.value[1] \in {"f", "F"}
    /\ environ.value[2] \in {"a", "A"}
    /\ environ.value[3] \in {"l", "L"}
    /\ environ.value[4] \in {"s", "S"}
    /\ environ.value[5] \in {"e", "E"}

SpellsTrue ==
    /\ environ.set
    /\ Len(environ.value) = 4
    /\ environ.value[1] \in {"t", "T"}
    /\ environ.value[2] \in {"r", "R"}
    /\ environ.value[3] \in {"u", "U"}
    /\ environ.value[4] \in {"e", "E"}

Returned == decision.called /\ ~decision.raised

\* C20: with CF_FEEDSTOCK_OPS_IN_CONTAINER unset or false in any case,
\* should_use_container returns True exactly when use_container is True or
\* None; with the variable true in any case it returns False for every
\* use_container; and for no value of the variable does it return True when
\* use_container is False.
C20_ShouldUseContainer ==
    /\ (decision.called /\ (~environ.set \/ SpellsFalse \/ SpellsTrue)) =>
          ~decision.raised
    /\ (Returned /\ (~environ.set \/ SpellsFalse)) =>
          (decision.value <=> use_container \in {"True", "None"})
    /\ (Returned /\ SpellsTrue) => ~decision.value
    /\ (Returned /\ use_container = "False") => ~decision.value

\* inside a container (the variable is "tRue") and asked to use one
C20_Witness ==
    /\ Returned
    /\ environ = Setting(<<"t", "R", "u", "e">>)
    /\ use_container = "True"
    /\ ~decision.value

\* the paths of the host that the call has created or modified, the
\* temporary directory of the call aside
Written ==
    {p \in DOMAIN host :
        /\ ~IsPrefix(RunTmpDir, p)
        /\ p \notin DOMAIN host_before \/ host[p] # host_before[p]}

\* C22: whatever the mounts and the archive, the unpack that
\* run_container_operation performs creates or modifies files only at or
\* below the host path of a read-write mount, never next to it or above it.
C22_WritesStayInOutputAreas ==
    \A p \in Written :
       \E i \in DOMAIN mounts :
          /\ ~mounts[i].read_only
          /\ IsPrefix(mounts[i].host_path, p)

\* following the target t from the directory of the entry r of a mount never
\* climbs above the host path of the mount
LinkStaysInMount(r, t) ==
    LET ups(k)   == Cardinality({i \in 1..k : t[i] = ".."})
        downs(k) == Cardinality({i \in 1..k : t[i] # ".."})
    IN  /\ t # <<>>
        /\ t[1] # "/"
        /\ \A k \in 1..Len(t) : ups(k) <= (Len(r) - 1) + downs(k)

\* C23: when the unpack has returned, every link that it restored below the
\* host path of a read-write mount resolves, followed from where it is on
\* the host, to a place inside the host path of that mount.
C23_RestoredLinksStayInMount ==
    (pc = "done" /\ OverlapFree(mounts)) =>
       \A i \in DOMAIN mounts : \A n \in LinkMembers :
          ( /\ ~mounts[i].read_only
            /\ StrictPrefix(relative_container_path(mounts[i]), n)
            /\ HostPathOf(mounts[i], n) \in DOMAIN host
            /\ host[HostPathOf(mounts[i], n)] = buffer[n] )
          => LinkStaysInMount(RelativeTo(n, relative_container_path(mounts[i])),
                              buffer[n].target)

\* the record holds an error string and a traceback that is a string or absent
ErrorRecordAsSpecified ==
    /\ "error" \in DOMAIN ret
    /\ ret["error"].type = "str"
    /\ "traceback" \in DOMAIN ret => ret["traceback"].type = "str"

\* C25: whenever the record holds an error field (an error string, with a
\* traceback that is a string or absent), run_container_operation raises the
\* reconstructed ContainerRuntimeError: it never returns the data field and
\* never ends in an exception of another type.
C25_ErrorFieldAlwaysRaisesRuntimeError ==
    (ReconstructionEnded /\ ErrorRecordAsSpecified) =>
       /\ run_pc = "raised"
       /\ ~result.returned
       /\ exc.type = "ContainerRuntimeError"

\* C26: the traceback attribute of the ContainerRuntimeError that
\* run_container_operation raises for a record equals the record's traceback
\* string, character for character.
C26_TracebackVerbatim ==
    ( /\ run_pc = "raised"
      /\ exc.type = "ContainerRuntimeError"
      /\ "error" \in DOMAIN ret
      /\ "traceback" \in DOMAIN ret
      /\ ret["traceback"].type = "str" )
    => exc.traceback = ret["traceback"]

\* an error string of shape "Kind: message": a name, a colon, a blank and a
\* message that neither starts nor ends with a blank
FirstColon(e) == CHOOSE i \in DOMAIN e : e[i] = ":" /\ \A j \in 1..(i - 1) : e[j] # ":"

HasShapeKindColonMessage(e) ==
    /\ \E i \in DOMAIN e : e[i] = ":"
    /\ IsName(SubSeq(e, 1, FirstColon(e) - 1))
    /\ Len(e) >= FirstColon(e) + 2
    /\ e[FirstColon(e) + 1] = " "
    /\ e[FirstColon(e) + 2] # " "
    /\ e[Len(e)] # " "

ColonKindOf(e) == SubSeq(e, 1, FirstColon(e) - 1)

ColonMessageOf(e) == SubSeq(e, FirstColon(e) + 2, Len(e))

\* an error string of neither shape: it has no colon, and no "(" with a ")"
\* somewhere after it
HasNeitherShape(e) ==
    /\ \A i \in DOMAIN e : e[i] # ":"
    /\ \A i \in DOMAIN e : \A j \in DOMAIN e : ~(i < j /\ e[i] = "(" /\ e[j] = ")")

FallbackMarker == <<"<", "could not be parsed">>

\* C27: an error string of shape "Kind: message" is reconstructed with kind
\* Kind and body message, one of shape "Kind(message)" with kind Kind and body
\* message, and one of neither shape with the fallback marker as kind and the
\* whole string as body.
C27_BothShapesAndFallback ==
    ( /\ ReconstructionEnded
      /\ "error" \in DOMAIN ret
      /\ ret["error"].type = "str"
      /\ "traceback" \in DOMAIN ret
      /\ ret["traceback"] = Str(<<"T">>) )
    => LET e == ret["error"].chars
       IN  /\ HasShapeKindColonMessage(e) =>
                /\ exc.type = "ContainerRuntimeError"
                /\ exc.error.ename = ColonKindOf(e)
                /\ exc.error.body = ColonMessageOf(e)
           /\ (HasShapeKindMessage(e) /\ IsName(KindOf(e))) =>
                /\ exc.type = "ContainerRuntimeError"
                /\ exc.error.ename = KindOf(e)
                /\ exc.error.body = MessageOf(e)
           /\ HasNeitherShape(e) =>
                /\ exc.type = "ContainerRuntimeError"
                /\ exc.error.ename = FallbackMarker
                /\ exc.error.body = e

\* the container process exited with status 0 and the call is over
CallEndedAfterExitZero ==
    /\ run_pc \in {"raised", "returned"}
    /\ launched
    /\ returncode = 0

\* the return-info file as the host finds it after the unpack: still the empty
\* placeholder (the archive has no such member, or an empty one), or a text
\* that is no JSON document, or bytes that are no text
ResultMissing ==
    \/ ~stdout.tar
    \/ <<RETURN_INFO_FILE_NAME>> \notin DOMAIN buffer
    \/ /\ <<RETURN_INFO_FILE_NAME>> \in DOMAIN buffer
       /\ buffer[<<RETURN_INFO_FILE_NAME>>].kind = "file"
       /\ ~json_loads(buffer[<<RETURN_INFO_FILE_NAME>>].data).ok

\* C28: when the container process exits 0 but the return-info file on the
\* host is still the empty placeholder, is absent from the archive or cannot
\* be parsed, run_container_operation raises a ContainerRuntimeError and
\* returns no value.
C28_MissingResultRaises ==
    (CallEndedAfterExitZero /\ ResultMissing) =>
       /\ run_pc = "raised"
       /\ ~result.returned
       /\ exc.type = "ContainerRuntimeError"

\* the process was the task runner of __main__.py and it has ended
TaskRunnerEnded == op.kind # "none" /\ run_pc # "launching"

\* C24: the task runner extracts the archive on its standard input into the
\* operations root, then runs the operation, and at the end writes an archive
\* of the whole root to its standard output, also when the operation raised:
\* once it has ended, its output is a tar stream that holds every member of
\* the inbound archive.
C24_MirrorProtocolInContainer ==
    TaskRunnerEnded =>
       /\ stdout.tar
       /\ \A n \in DOMAIN stdin_tar : n \in DOMAIN buffer

\* the variable of the innermost open context is as the context asked
OverrideVisible ==
    frames # <<>> =>
       LET f == frames[Len(frames)]
       IN  environ_get(os_environ, f.name) = f.value

\* C30: override_env(name, value) enters its block for every combination of
\* a variable that is set or not and a value that is a string or None; inside
\* the block the variable has the value (or is unset); when the block is left,
\* normally or by an exception, the environment is what it was on entry, this
\* variable and every other; override_env raises nothing of its own.
C30_TemporaryOverride ==
    [][ /\ Len(frames') > Len(frames) => OverrideVisible'
        /\ Len(frames') < Len(frames) => os_environ' = frames[Len(frames)].before
        /\ override_exc' # "KeyError" ]_vars

RoundTripEnded == json_pc \in {"loaded", "raised"}

\* C21: for every value built from dicts, lists, scalars and sets,
\* loads(dumps(x)) and load after dump through a file end without an
\* exception and give a value equal to x.
C21_JsonRoundTrip ==
    RoundTripEnded =>
       /\ json_pc = "loaded"
       /\ loaded = obj

\* rerender_local has raised or returned
TeeEnded == main_pc \in {"raised RuntimeError", "returned"}

\* both reader threads have left their loop
ReadersDone == \A i \in Threads : thread_pc[i] = "done"

\* the main thread is past the two joins
PastJoins == main_pc \in {"communicate", "return", "raised RuntimeError", "returned"}

\* C29 as stated: _subprocess_run_tee with a timeout always ends, with the
\* stop event set and both reader threads joined, and whenever proc.wait
\* timed out (the child was still running when the timeout expired)
\* rerender_local raises RuntimeError and returns no commit message.
C29_TimeoutAlwaysRaises ==
    /\ <>TeeEnded
    /\ [](PastJoins => (stop_event /\ ReadersDone))
    /\ []((TeeEnded /\ wait_result = "TimeoutExpired") => main_pc = "raised RuntimeError")

\* C29, amended: _subprocess_run_tee with a timeout always ends, with the
\* stop event set and both reader threads joined under every interleaving;
\* a child that is still running when proc.kill() acts is killed, and then
\* rerender_local raises RuntimeError; it returns only when the child ended by
\* itself with status 0, which can also happen between the expiry and the kill.
C29_TeeTerminates ==
    /\ <>TeeEnded
    /\ [](PastJoins => (stop_event /\ ReadersDone))
    /\ []((main_pc \in {"finally", "join 1", "join 2"} \/ PastJoins)
             => child.state = "exited")
    /\ []((TeeEnded /\ child.status = Killed) => main_pc = "raised RuntimeError")
    /\ [](main_pc = "returned" => (child.state = "exited" /\ child.status = 0))

\* the timeout expired with the child running, the child was killed, both
\* threads were joined and rerender_local raised
C29_Witness ==
    /\ main_pc = "raised RuntimeError"
    /\ wait_result = "TimeoutExpired"
    /\ child.status = Killed
    /\ stop_event
    /\ ReadersDone

====
